---------------------------- MODULE Spec2Model ----------------------------
(***************************************************************************)
(* readdir-precache: the overlay resolver (encfs_mapper.c) and the         *)
(* library-mode interposer with its per-handle state machine               *)
(* (libprecache.c).                                                        *)
(*                                                                         *)
(* C strings are sequences of one-character strings; the terminating NUL   *)
(* is implicit (At) except inside a /proc/<pid>/cmdline blob, where the    *)
(* separators are explicit NUL elements.  A null pointer of type char* is  *)
(* the one-element sequence NULL, which is no string of the alphabet.      *)
(***************************************************************************)
EXTENDS Integers, Sequences, FiniteSets, TLC

VARIABLES
    dirp_to_state_map,  \* libprecache.c: the per-handle table, in insertion order
    front_to_back_map,  \* encfs_mapper.c: the mount table, in insertion order
    inode_to_path_map,  \* encfs_mapper.c: the inode cache, a set of [inode, path]
    last_checked,       \* encfs_mapper.c: tv_sec of the static last_checked
    now,                \* the wall clock (CLOCK_REALTIME), in seconds
    procs,              \* the numeric entries of /proc, in getdents order
    env_PRECACHE_LIMIT, \* getenv("PRECACHE_LIMIT") after atol: <<n>>, or <<>> when unset
    pc,                 \* per host thread: where it is inside an intercepted call
    mutex,              \* owner of the process-wide mutex, NoThread when free
    call,               \* per host thread: the arguments of the call in progress
    ev,                 \* observation: the last call and what it returned or did
    obs                 \* observation: counters and per-handle history

vars == <<dirp_to_state_map, front_to_back_map, inode_to_path_map, last_checked,
          now, procs, env_PRECACHE_LIMIT, pc, mutex, call, ev, obs>>

(***************************************************************************)
(* Bounds of the model.                                                    *)
(***************************************************************************)
MaxTime == 2        \* seconds the wall clock runs through
MaxProcs == 2       \* numeric /proc entries in one process table
MaxFailing == 2     \* lstat calls of one inode trace up to which one may fail

(***************************************************************************)
(* C strings.                                                              *)
(***************************************************************************)
NUL == "NUL"
NULL == <<"NULL">>
NULLTRACE == <<-1>>

Min(a, b) == IF a < b THEN a ELSE b

\* s[i] of C, 0-based; the byte after the last character is the NUL.
At(s, i) == IF i < Len(s) THEN s[i + 1] ELSE NUL

\* strncmp(s, p, strlen(p)) == 0
HasPrefix(s, p) == Len(s) >= Len(p) /\ SubSeq(s, 1, Len(p)) = p

\* strchr(s + from, c) != NULL, from 0-based and from <= strlen(s)
HasCharFrom(s, from, c) == \E i \in (from + 1)..Len(s) : s[i] = c

\* memrchr(s, '/', len): the 0-based index of the last '/', -1 when there is none
LastSlash(s) ==
    IF \E i \in 1..Len(s) : s[i] = "/"
    THEN (CHOOSE i \in 1..Len(s) : s[i] = "/" /\ \A j \in (i + 1)..Len(s) : s[j] # "/") - 1
    ELSE -1

RECURSIVE CStrLen(_, _)
\* strlen(buf + (i-1)) inside a blob whose separators are NUL elements
CStrLen(buf, i) ==
    IF i > Len(buf) \/ buf[i] = NUL THEN 0 ELSE 1 + CStrLen(buf, i + 1)

CStrAt(buf, i) == SubSeq(buf, i, i + CStrLen(buf, i) - 1)

RECURSIVE Blob(_)
\* what the kernel puts in /proc/<pid>/cmdline for an argument vector
Blob(args) ==
    IF args = <<>> THEN <<>> ELSE Head(args) \o <<NUL>> \o Blob(Tail(args))

RECURSIVE StripSlashes(_)
\* a path with every trailing '/' removed (the data model's stored form)
StripSlashes(s) ==
    IF Len(s) > 0 /\ s[Len(s)] = "/" THEN StripSlashes(SubSeq(s, 1, Len(s) - 1)) ELSE s

FUSE_SUPER_MAGIC == 1702057286

(***************************************************************************)
(* The file system the program runs on.  A node is named by the sequence   *)
(* of its path components; the working directory is "/".  Inode numbers of *)
(* the overlay (FUSE) tree under /m are those of the backing files, as an  *)
(* inode-passing overlay reports them.                                     *)
(***************************************************************************)
Dot == <<".">>
DotDot == <<".", ".">>

NoNode == [kind |-> "none", ino |-> 0, fs |-> "none", ents |-> <<>>, size |-> 0,
           extents |-> <<>>, open_ok |-> FALSE, fstat_ok |-> FALSE]
\* a directory occupies one block of its own, placed by inode number
DirNode(i, f, e) == [kind |-> "dir", ino |-> i, fs |-> f, ents |-> e, size |-> 1,
                     extents |-> <<[fe_physical |-> 100 - i, fe_logical |-> 0,
                                    fe_length |-> 1, last |-> TRUE]>>,
                     open_ok |-> TRUE, fstat_ok |-> TRUE]
RegNode(i, f, sz, ex, o) == [kind |-> "reg", ino |-> i, fs |-> f, ents |-> <<>>,
                             size |-> sz, extents |-> ex, open_ok |-> o,
                             fstat_ok |-> TRUE]
\* a symbolic link whose target does not exist
LnkNode(i, f) == [kind |-> "lnk", ino |-> i, fs |-> f, ents |-> <<>>, size |-> 0,
                  extents |-> <<>>, open_ok |-> FALSE, fstat_ok |-> FALSE]

Extent(phys, log, len, last) ==
    [fe_physical |-> phys, fe_logical |-> log, fe_length |-> len, last |-> last]

FsNode(key) ==
    CASE key = <<>> ->
            DirNode(1, "ext", <<Dot, DotDot, <<"b">>, <<"c">>, <<"d">>, <<"e">>,
                                <<"h">>, <<"m">>, <<"m", "x">>, <<"n">>, <<"o">>, <<"x">>,
                                <<"z">>>>)
      \* L is a second name (hard link) of X, K a dangling symbolic link
      [] key = <<<<"b">>>> ->
            DirNode(2, "ext", <<Dot, DotDot, <<"X">>, <<"L">>, <<"K">>, <<"A">>>>)
      [] key = <<<<"b">>, <<"L">>>> ->
            RegNode(10, "ext", 1, <<Extent(80, 0, 1, TRUE)>>, TRUE)
      [] key = <<<<"b">>, <<"K">>>> -> LnkNode(14, "ext")
      [] key = <<<<"b">>, <<"X">>>> ->
            RegNode(10, "ext", 1, <<Extent(80, 0, 1, TRUE)>>, TRUE)
      [] key = <<<<"b">>, <<"A">>>> -> DirNode(11, "ext", <<Dot, DotDot, <<"Y">>, <<"Z">>>>)
      [] key = <<<<"b">>, <<"A">>, <<"Y">>>> ->
            RegNode(12, "ext", 1, <<Extent(81, 0, 1, TRUE)>>, TRUE)
      [] key = <<<<"b">>, <<"A">>, <<"Z">>>> ->
            RegNode(13, "ext", 1, <<Extent(82, 0, 1, TRUE)>>, TRUE)
      [] key = <<<<"c">>>> -> DirNode(4, "ext", <<Dot, DotDot, <<"W">>>>)
      [] key = <<<<"c">>, <<"W">>>> ->
            RegNode(10, "ext", 1, <<Extent(83, 0, 1, TRUE)>>, TRUE)
      [] key = <<<<"d">>>> ->
            DirNode(3, "ext", <<Dot, <<"p">>, <<"q">>, <<"r">>, <<"s">>, <<"t">>,
                                <<"u">>, DotDot, <<"y">>, <<"v">>, <<"w">>>>)
      [] key = <<<<"d">>, <<"p">>>> ->
            RegNode(31, "ext", 1, <<Extent(50, 0, 1, TRUE)>>, TRUE)
      [] key = <<<<"d">>, <<"q">>>> ->
            RegNode(32, "ext", 1, <<Extent(60, 0, 1, TRUE)>>, TRUE)
      [] key = <<<<"d">>, <<"r">>>> ->
            RegNode(33, "ext", 1, <<Extent(70, 0, 1, TRUE)>>, TRUE)
      [] key = <<<<"d">>, <<"s">>>> ->
            RegNode(34, "ext", 2, <<Extent(30, 0, 1, FALSE), Extent(10, 1, 1, TRUE)>>,
                    TRUE)
      \* t ends inside its first block and has a block preallocated past
      \* the end of file
      [] key = <<<<"d">>, <<"t">>>> ->
            RegNode(35, "ext", 2, <<Extent(20, 0, 4, FALSE), Extent(25, 4, 2, TRUE)>>,
                    TRUE)
      [] key = <<<<"d">>, <<"u">>>> ->
            RegNode(36, "ext", 1, <<Extent(40, 0, 1, TRUE)>>, FALSE)
      [] key = <<<<"d">>, <<"y">>>> ->
            RegNode(39, "ext", 1, <<Extent(45, 0, 1, TRUE)>>, TRUE)
      [] key = <<<<"d">>, <<"v">>>> -> LnkNode(37, "ext")
      [] key = <<<<"d">>, <<"w">>>> ->
            RegNode(38, "ext", 1, <<Extent(5, 0, 1, TRUE)>>, TRUE)
      [] key = <<<<"e">>>> -> DirNode(5, "ext", <<DotDot, <<"a">>>>)
      [] key = <<<<"e">>, <<"a">>>> ->
            RegNode(51, "ext", 1, <<Extent(90, 0, 1, TRUE)>>, TRUE)
      \* a directory whose fourth file is a hole
      [] key = <<<<"h">>>> ->
            DirNode(15, "ext", <<Dot, DotDot, <<"i">>, <<"j">>, <<"k">>, <<"z">>>>)
      [] key = <<<<"h">>, <<"i">>>> ->
            RegNode(61, "ext", 1, <<Extent(86, 0, 1, TRUE)>>, TRUE)
      [] key = <<<<"h">>, <<"j">>>> ->
            RegNode(62, "ext", 1, <<Extent(87, 0, 1, TRUE)>>, TRUE)
      [] key = <<<<"h">>, <<"k">>>> ->
            RegNode(63, "ext", 1, <<Extent(88, 0, 1, TRUE)>>, TRUE)
      [] key = <<<<"h">>, <<"z">>>> -> RegNode(64, "ext", 2, <<>>, TRUE)
      [] key = <<<<"x">>>> -> RegNode(6, "ext", 1, <<Extent(91, 0, 1, TRUE)>>, TRUE)
      \* the one extent of o, which reaches the end of the file, is not
      \* flagged as the last; z has a size and no block allocated (a hole)
      [] key = <<<<"o">>>> -> RegNode(7, "ext", 1, <<Extent(92, 0, 1, FALSE)>>, TRUE)
      [] key = <<<<"z">>>> -> RegNode(8, "ext", 2, <<>>, TRUE)
      [] key = <<<<"m">>>> ->
            DirNode(20, "fuse", <<Dot, DotDot, <<"f">>, <<"l">>, <<"k">>, <<"s">>>>)
      [] key = <<<<"m">>, <<"l">>>> ->
            RegNode(10, "fuse", 1, <<Extent(0, 0, 1, TRUE)>>, TRUE)
      [] key = <<<<"m">>, <<"k">>>> -> LnkNode(14, "fuse")
      [] key = <<<<"m">>, <<"f">>>> ->
            RegNode(10, "fuse", 1, <<Extent(0, 0, 1, TRUE)>>, TRUE)
      [] key = <<<<"m">>, <<"s">>>> -> DirNode(11, "fuse", <<Dot, DotDot, <<"g">>, <<"h">>>>)
      [] key = <<<<"m">>, <<"s">>, <<"g">>>> ->
            RegNode(12, "fuse", 1, <<Extent(0, 0, 1, TRUE)>>, TRUE)
      [] key = <<<<"m">>, <<"s">>, <<"h">>>> ->
            RegNode(13, "fuse", 1, <<Extent(0, 0, 1, TRUE)>>, TRUE)
      \* a second overlay, over /c, and an overlay whose name begins with the
      \* name of the first
      [] key = <<<<"n">>>> -> DirNode(21, "fuse", <<Dot, DotDot, <<"w">>>>)
      [] key = <<<<"n">>, <<"w">>>> ->
            RegNode(10, "fuse", 1, <<Extent(0, 0, 1, TRUE)>>, TRUE)
      [] key = <<<<"m", "x">>>> -> DirNode(22, "fuse", <<Dot, DotDot, <<"f">>>>)
      [] key = <<<<"m", "x">>, <<"f">>>> ->
            RegNode(10, "fuse", 1, <<Extent(0, 0, 1, TRUE)>>, TRUE)
      [] OTHER -> NoNode

RECURSIVE SplitPath(_, _, _)
\* the components of a path, empty ones (repeated or trailing '/') dropped
SplitPath(s, i, cur) ==
    IF i > Len(s) THEN (IF cur = <<>> THEN <<>> ELSE <<cur>>)
    ELSE IF s[i] = "/"
         THEN (IF cur = <<>> THEN <<>> ELSE <<cur>>) \o SplitPath(s, i + 1, <<>>)
         ELSE SplitPath(s, i + 1, Append(cur, s[i]))

ParentKey(key) == IF key = <<>> THEN key ELSE SubSeq(key, 1, Len(key) - 1)

RECURSIVE WalkFrom(_, _)
\* the kernel's path walk: every component but the last must be a directory
WalkFrom(comps, key) ==
    IF comps = <<>> THEN [ok |-> TRUE, key |-> key]
    ELSE IF FsNode(key).kind # "dir" THEN [ok |-> FALSE, key |-> key]
    ELSE LET c == Head(comps) IN
         IF c = Dot THEN WalkFrom(Tail(comps), key)
         ELSE IF c = DotDot THEN WalkFrom(Tail(comps), ParentKey(key))
         ELSE IF FsNode(Append(key, c)).kind = "none" THEN [ok |-> FALSE, key |-> key]
         ELSE WalkFrom(Tail(comps), Append(key, c))

\* the node a path names without following a final symbolic link:
\* [ok, key, n]
Lookup(path) ==
    LET found(w) == [ok |-> w.ok, key |-> w.key, n |-> FsNode(w.key)]
        checked(x) == IF x.ok /\ path[Len(path)] = "/" /\ x.n.kind # "dir"
                      THEN [x EXCEPT !.ok = FALSE]
                      ELSE x
    IN IF path = <<>> THEN [ok |-> FALSE, key |-> <<>>, n |-> NoNode]
       ELSE checked(found(WalkFrom(SplitPath(path, 1, <<>>), <<>>)))

\* lstat(2): [r, st_ino, reg]
lstat(path) ==
    LET st(x) == IF x.ok THEN [r |-> 0, st_ino |-> x.n.ino, reg |-> x.n.kind = "reg"]
                 ELSE [r |-> -1, st_ino |-> 0, reg |-> FALSE]
    IN st(Lookup(path))

\* statfs(2), which follows symbolic links: [r, f_type]
statfs(path) ==
    LET st(x) == IF x.ok /\ x.n.kind # "lnk"
                 THEN [r |-> 0,
                       f_type |-> IF x.n.fs = "fuse" THEN FUSE_SUPER_MAGIC ELSE 61267]
                 ELSE [r |-> -1, f_type |-> 0]
    IN st(Lookup(path))

\* open(path, O_RDONLY | O_DIRECTORY) and getdents64 to the end: the entries
\* as [d_ino, d_type, d_name], or <<>> with ok = FALSE when the open fails
getdents64(path) ==
    LET node(x, name) == FsNode(IF name = Dot THEN x.key
                                ELSE IF name = DotDot THEN ParentKey(x.key)
                                ELSE Append(x.key, name))
        dirent(n, name) == [d_ino |-> n.ino, d_type |-> n.kind, d_name |-> name]
        list(x) == IF x.ok /\ x.n.kind = "dir"
                   THEN [ok |-> TRUE,
                         ents |-> [k \in 1..Len(x.n.ents) |->
                                      dirent(node(x, x.n.ents[k]), x.n.ents[k])]]
                   ELSE [ok |-> FALSE, ents |-> <<>>]
    IN list(Lookup(path))

\* open(path, O_RDONLY) of a regular file or a directory, followed by fstat
OpenFile(path) ==
    LET opened(x) == [fd_ok |-> x.ok /\ x.n.kind \in {"reg", "dir"} /\ x.n.open_ok,
                      fstat_ok |-> x.n.fstat_ok, st_size |-> x.n.size,
                      extents |-> x.n.extents]
    IN opened(Lookup(path))

(***************************************************************************)
(* encfs_mapper.c: the mount table and the inode cache.                    *)
(***************************************************************************)
FAULT == <<"FAULT">>
\* an inode array whose construction went through an invalid pointer
FAULTTRACE == <<-2>>
encfs == <<"e", "n", "c", "f", "s">>

RemoveAt(seq, k) == SubSeq(seq, 1, k - 1) \o SubSeq(seq, k + 1, Len(seq))

strdup_and_trim_slashes(source) ==
    LET len == Len(source) IN
    \* len is never decremented: the loop body runs at most once
    IF len > 0 /\ source[len] = "/" THEN SubSeq(source, 1, len - 1) ELSE source

it_is_inside_back_path(it_path, back_path) ==
    /\ Len(it_path) >= Len(back_path)
    /\ SubSeq(it_path, 1, Len(back_path)) = back_path
    /\ At(it_path, Len(back_path)) \in {"/", NUL}

remove_inode_to_path_mappings_for_path(i2p, back_path) ==
    {it \in i2p : ~it_is_inside_back_path(it.path, back_path)}

RECURSIVE ScanArgs(_, _, _)
\* the while (ptr < end) loop of process_encfs_mount; ptr is 1-based here
ScanArgs(cmdline, ptr, dirs) ==
    IF ptr > Len(cmdline) THEN dirs
    ELSE ScanArgs(cmdline, ptr + CStrLen(cmdline, ptr) + 1,
                  IF Len(dirs) < 2 /\ At(cmdline, ptr - 1) # "-"
                  THEN Append(dirs, CStrAt(cmdline, ptr)) ELSE dirs)

\* HASH_FIND_STR: the index of the entry keyed by front, 0 when there is none
FindFront(f2b, front) ==
    IF \E k \in 1..Len(f2b) : f2b[k].encfs_front = front
    THEN CHOOSE k \in 1..Len(f2b) : f2b[k].encfs_front = front
    ELSE 0

\* a variant that leaves a mount seen again under its pid marked for removal
process_encfs_mount_forgetful(st, cmdline, pid) ==
    LET new(encfs_back, encfs_front) ==
            [encfs_front |-> encfs_front, encfs_back |-> encfs_back,
             encfs_pid |-> pid, pending_removal |-> FALSE]
        mount(encfs_back, encfs_front, m) ==
            IF m # 0 /\ st.f2b[m].encfs_pid = pid
            THEN st
            ELSE IF m # 0
            THEN [f2b |-> Append(RemoveAt(st.f2b, m), new(encfs_back, encfs_front)),
                  i2p |-> remove_inode_to_path_mappings_for_path(
                              st.i2p, st.f2b[m].encfs_back),
                  retired |-> st.retired \cup {st.f2b[m].encfs_back}]
            ELSE [st EXCEPT !.f2b = Append(st.f2b, new(encfs_back, encfs_front))]
        find(encfs_back, encfs_front) ==
            mount(encfs_back, encfs_front, FindFront(st.f2b, encfs_front))
        parsed(dirs) ==
            IF Len(dirs) < 2 THEN st
            ELSE find(strdup_and_trim_slashes(dirs[1]), strdup_and_trim_slashes(dirs[2]))
    IN parsed(ScanArgs(cmdline, CStrLen(cmdline, 1) + 2, <<>>))

\* st = [f2b, i2p, retired]; retired collects, for observation, the backing
\* roots of the entries this refresh deleted
process_encfs_mount(st, cmdline, pid) ==
    LET new(encfs_back, encfs_front) ==
            [encfs_front |-> encfs_front, encfs_back |-> encfs_back,
             encfs_pid |-> pid, pending_removal |-> FALSE]
        mount(encfs_back, encfs_front, m) ==
            IF m # 0 /\ st.f2b[m].encfs_pid = pid
            THEN [st EXCEPT !.f2b[m].pending_removal = FALSE]
            ELSE IF m # 0
            THEN [f2b |-> Append(RemoveAt(st.f2b, m), new(encfs_back, encfs_front)),
                  i2p |-> remove_inode_to_path_mappings_for_path(
                              st.i2p, st.f2b[m].encfs_back),
                  retired |-> st.retired \cup {st.f2b[m].encfs_back}]
            ELSE [st EXCEPT !.f2b = Append(st.f2b, new(encfs_back, encfs_front))]
        find(encfs_back, encfs_front) ==
            mount(encfs_back, encfs_front, FindFront(st.f2b, encfs_front))
        parsed(dirs) ==
            IF Len(dirs) < 2 THEN st
            ELSE find(strdup_and_trim_slashes(dirs[1]), strdup_and_trim_slashes(dirs[2]))
    IN parsed(ScanArgs(cmdline, CStrLen(cmdline, 1) + 2, <<>>))

RECURSIVE ScanProc(_, _, _)
\* the getdents64 loop over /proc: entries k..Len(entries)
ScanProc(st, entries, k) ==
    IF k > Len(entries) THEN st
    ELSE LET de == entries[k] IN
         ScanProc(IF de.is_pid_dir /\ de.readable /\ CStrAt(de.cmdline, 1) = encfs
                  THEN process_encfs_mount(st, de.cmdline, de.pid)
                  ELSE st,
                  entries, k + 1)

RECURSIVE DropPending(_, _)
\* the closing HASH_ITER of do_refresh_mounts, from entry k on
DropPending(st, k) ==
    IF k > Len(st.f2b) THEN st
    ELSE IF st.f2b[k].pending_removal
    THEN DropPending([f2b |-> RemoveAt(st.f2b, k),
                      i2p |-> remove_inode_to_path_mappings_for_path(
                                  st.i2p, st.f2b[k].encfs_back),
                      retired |-> st.retired \cup {st.f2b[k].encfs_back}], k)
    ELSE DropPending(st, k + 1)

\* proc_ok: whether /proc could be opened and read
do_refresh_mounts(f2b, i2p, entries, proc_ok) ==
    LET marked == [k \in 1..Len(f2b) |-> [f2b[k] EXCEPT !.pending_removal = TRUE]]
        done(st) == [r |-> 0, f2b |-> st.f2b, i2p |-> st.i2p, retired |-> st.retired]
    IN IF ~proc_ok
       THEN [r |-> -1, f2b |-> marked, i2p |-> i2p, retired |-> {}]
       ELSE done(DropPending(ScanProc([f2b |-> marked, i2p |-> i2p, retired |-> {}],
                                      entries, 1), 1))

\* clock_gettime(CLOCK_REALTIME, &now) with a valid pointer has no failing
\* outcome on Linux
clock_gettime_r == 0

\* a variant that records the time of a call only when the call scans
encfs_mapper_refresh_mounts_lazy(f2b, i2p, last, current_path, t, entries, proc_ok) ==
    LET keep(r, l) == [r |-> r, scanned |-> FALSE, f2b |-> f2b, i2p |-> i2p,
                       last_checked |-> l, retired |-> {}]
        sfs == statfs(current_path)
        d == do_refresh_mounts(f2b, i2p, entries, proc_ok)
    IN IF clock_gettime_r # 0 THEN keep(-1, last)
       ELSE IF t = last THEN keep(0, last)
       ELSE IF sfs.r # 0 THEN keep(-1, last)
       ELSE IF sfs.f_type # FUSE_SUPER_MAGIC THEN keep(0, last)
       ELSE [r |-> d.r, scanned |-> TRUE, f2b |-> d.f2b, i2p |-> d.i2p,
             last_checked |-> t, retired |-> d.retired]

\* a variant that scans whatever filesystem the context path is on
encfs_mapper_refresh_mounts_anyfs(f2b, i2p, last, current_path, t, entries, proc_ok) ==
    LET keep(r, l) == [r |-> r, scanned |-> FALSE, f2b |-> f2b, i2p |-> i2p,
                       last_checked |-> l, retired |-> {}]
        sfs == statfs(current_path)
        d == do_refresh_mounts(f2b, i2p, entries, proc_ok)
    IN IF clock_gettime_r # 0 THEN keep(-1, last)
       ELSE IF t = last THEN keep(0, last)
       ELSE IF sfs.r # 0 THEN keep(-1, t)
       ELSE [r |-> d.r, scanned |-> TRUE, f2b |-> d.f2b, i2p |-> d.i2p,
             last_checked |-> t, retired |-> d.retired]

\* [r, scanned, f2b, i2p, last_checked, retired]
encfs_mapper_refresh_mounts(f2b, i2p, last, current_path, t, entries, proc_ok) ==
    LET keep(r, l) == [r |-> r, scanned |-> FALSE, f2b |-> f2b, i2p |-> i2p,
                       last_checked |-> l, retired |-> {}]
        scan(d) == [r |-> d.r, scanned |-> TRUE, f2b |-> d.f2b, i2p |-> d.i2p,
                    last_checked |-> t, retired |-> d.retired]
        checked(sfs) ==
            IF sfs.r # 0 THEN keep(-1, t)
            ELSE IF sfs.f_type # FUSE_SUPER_MAGIC THEN keep(0, t)
            ELSE scan(do_refresh_mounts(f2b, i2p, entries, proc_ok))
    IN IF clock_gettime_r # 0 THEN keep(-1, last)
       ELSE IF t = last THEN keep(0, last)
       ELSE checked(statfs(current_path))

\* what lstat leaves in r when it fails
lstat_failed == [r |-> -1, st_ino |-> 0, reg |-> FALSE]

RECURSIVE TraceLoop(_, _, _, _)
\* the while loop of trace_inodes_back_to_base: [cur_path, inode_trace, fault].
\* failing = n > 0: the n-th lstat call from here on fails although the first
\* lstat of the path succeeded (the overlay daemon went away, an ancestor was
\* renamed); failing = 0: the file system answers as it stands.
TraceLoop(cur_path, inode_trace, encfs_front_len, failing) ==
    LET step(sb, slash) ==
            IF sb.r # 0
            THEN [cur_path |-> cur_path, inode_trace |-> inode_trace, fault |-> FALSE]
            ELSE IF slash < 0
            \* memrchr returns NULL and the truncation length is garbage
            THEN [cur_path |-> cur_path, inode_trace |-> Append(inode_trace, sb.st_ino),
                  fault |-> TRUE]
            ELSE IF slash = 0
            THEN [cur_path |-> <<>>, inode_trace |-> Append(inode_trace, sb.st_ino),
                  fault |-> FALSE]
            ELSE TraceLoop(SubSeq(cur_path, 1, slash), Append(inode_trace, sb.st_ino),
                           encfs_front_len, IF failing > 0 THEN failing - 1 ELSE 0)
    IN IF ~(Len(cur_path) > encfs_front_len)
       THEN [cur_path |-> cur_path, inode_trace |-> inode_trace, fault |-> FALSE]
       ELSE step(IF failing = 1 THEN lstat_failed ELSE lstat(cur_path),
                 LastSlash(cur_path))

trace_inodes_back_to_base(src_path, encfs_front, failing) ==
    LET traced(t) == IF t.fault THEN FAULTTRACE
                     ELSE IF Len(t.cur_path) # Len(encfs_front) THEN NULLTRACE
                     ELSE t.inode_trace
    IN traced(TraceLoop(StripSlashes(src_path), <<>>, Len(encfs_front), failing))

InodeCached(i2p, inode) == \E m \in i2p : m.inode = inode
CachedPath(i2p, inode) == (CHOOSE m \in i2p : m.inode = inode).path

JoinPath(path, d_name) ==
    path \o (IF Len(path) > 0 /\ path[Len(path)] = "/" THEN <<>> ELSE <<"/">>) \o d_name

RECURSIVE ScanDir_last(_, _, _, _, _, _)
\* a variant that returns the last entry of the directory, whatever its inode
ScanDir_last(i2p, path, target_inode, ents, k, res) ==
    IF k > Len(ents) THEN [res |-> res, i2p |-> i2p]
    ELSE LET de == ents[k]
             full == JoinPath(path, de.d_name)
         IN ScanDir_last(IF InodeCached(i2p, de.d_ino) THEN i2p
                         ELSE i2p \cup {[inode |-> de.d_ino, path |-> full]},
                         path, target_inode, ents, k + 1, full)

RECURSIVE ScanDir_forgetful(_, _, _, _, _, _)
\* a variant that caches nothing
ScanDir_forgetful(i2p, path, target_inode, ents, k, res) ==
    IF k > Len(ents) THEN [res |-> res, i2p |-> i2p]
    ELSE ScanDir_forgetful(i2p, path, target_inode, ents, k + 1,
                           IF ents[k].d_ino = target_inode
                           THEN JoinPath(path, ents[k].d_name) ELSE res)

RECURSIVE ScanDir(_, _, _, _, _, _)
\* the getdents64 loop of find_inode_in_dir over entries k..: [res, i2p]
ScanDir(i2p, path, target_inode, ents, k, res) ==
    IF k > Len(ents) THEN [res |-> res, i2p |-> i2p]
    ELSE LET de == ents[k]
             full == JoinPath(path, de.d_name)
         IN ScanDir(IF InodeCached(i2p, de.d_ino) THEN i2p
                    ELSE i2p \cup {[inode |-> de.d_ino, path |-> full]},
                    path, target_inode, ents, k + 1,
                    IF de.d_ino = target_inode THEN full ELSE res)

\* [res, i2p, dirs]: dirs are the directories scanned and the inode looked
\* for in each, for observation
find_inode_in_dir(i2p, path, target_inode) ==
    LET read(s) == [res |-> s.res, i2p |-> s.i2p,
                    dirs |-> <<[path |-> path, inode |-> target_inode]>>]
        opened(d) == IF ~d.ok THEN [res |-> NULL, i2p |-> i2p, dirs |-> <<>>]
                     ELSE read(ScanDir(i2p, path, target_inode, d.ents, 1, NULL))
    IN opened(getdents64(path))

query_inode_to_path_map(i2p, inode) ==
    IF InodeCached(i2p, inode) THEN CachedPath(i2p, inode) ELSE NULL

RECURSIVE FollowLoop(_, _, _, _, _)
\* the for (; idx >= 0; idx--) loop of follow_inode_trace
FollowLoop(i2p, inode_trace, idx, cur_path, dirs) ==
    LET next(f) ==
            IF f.res = NULL THEN [res |-> NULL, i2p |-> f.i2p, dirs |-> dirs \o f.dirs]
            ELSE FollowLoop(f.i2p, inode_trace, idx - 1, f.res, dirs \o f.dirs)
    IN IF idx < 0 THEN [res |-> cur_path, i2p |-> i2p, dirs |-> dirs]
       ELSE next(find_inode_in_dir(i2p, cur_path, inode_trace[idx + 1]))

\* a variant of the walk that starts at the backing root whatever the cache
\* holds
follow_inode_trace_fromroot(i2p, inode_trace, base) ==
    IF inode_trace = NULLTRACE \/ inode_trace = FAULTTRACE
    THEN [res |-> FAULT, i2p |-> i2p, dirs |-> <<>>]
    ELSE FollowLoop(i2p, inode_trace, Len(inode_trace) - 1, base, <<>>)

follow_inode_trace(i2p, inode_trace, base) ==
    LET n == Len(inode_trace)
        hits == {k \in 0..(n - 1) : InodeCached(i2p, inode_trace[k + 1])}
        idx == IF hits = {} THEN n ELSE CHOOSE k \in hits : \A j \in hits : k <= j
        cur_path == IF hits = {} THEN base ELSE CachedPath(i2p, inode_trace[idx + 1])
    IN IF inode_trace = NULLTRACE \/ inode_trace = FAULTTRACE
       \* utarray_len(NULL) reads through a null pointer
       THEN [res |-> FAULT, i2p |-> i2p, dirs |-> <<>>]
       ELSE FollowLoop(i2p, inode_trace, idx - 1, cur_path, <<>>)

\* a variant of the test that accepts a root that is a character prefix
in_encfs_chars(src_path, encfs_front) ==
    /\ Len(src_path) >= Len(encfs_front)
    /\ SubSeq(src_path, 1, Len(encfs_front)) = encfs_front

in_encfs(src_path, encfs_front) ==
    /\ Len(src_path) >= Len(encfs_front)
    /\ SubSeq(src_path, 1, Len(encfs_front)) = encfs_front
    /\ At(src_path, Len(encfs_front)) \in {"/", NUL}

\* the result of a call that built no inode trace
NOTRACE == <<0>>

\* a variant that asks the inode cache before it asks for the filesystem type
encfs_mapper_resolve_path_cachefirst(f2b, i2p, src_path, failing) ==
    LET out(r, k) == [res |-> r, i2p |-> i2p, dirs |-> <<>>, it |-> k,
                      trace |-> NOTRACE]
        probes == {k \in 1..Len(f2b) : in_encfs(src_path, f2b[k].encfs_front)}
        walked(f, k, tr) == [res |-> IF f.res = NULL THEN src_path ELSE f.res,
                             i2p |-> f.i2p, dirs |-> f.dirs, it |-> k, trace |-> tr]
        traced(k, tr) ==
            walked(follow_inode_trace(i2p, tr, f2b[k].encfs_back), k, tr)
        probed(k, sb) ==
            IF sb.r # 0 \/ ~sb.reg THEN out(src_path, k)
            ELSE traced(k, trace_inodes_back_to_base(src_path, f2b[k].encfs_front,
                                                     failing))
        checked(sfsb, sb) ==
            IF sfsb.r # 0 THEN out(NULL, 0)
            ELSE IF sb.r = 0 /\ sb.reg /\ InodeCached(i2p, sb.st_ino)
            THEN out(CachedPath(i2p, sb.st_ino), 0)
            ELSE IF sfsb.f_type # FUSE_SUPER_MAGIC THEN out(src_path, 0)
            ELSE IF probes = {} THEN out(src_path, 0)
            ELSE probed(CHOOSE k \in probes : \A j \in probes : k <= j, sb)
    IN checked(statfs(src_path), lstat(src_path))

\* [res, i2p, dirs, it, trace]: it is the index of the mount entry the loop
\* stopped at (0: none matched), trace the inode array built (NOTRACE: none)
encfs_mapper_resolve_path(f2b, i2p, src_path, failing) ==
    LET out(r, k) == [res |-> r, i2p |-> i2p, dirs |-> <<>>, it |-> k,
                      trace |-> NOTRACE]
        probes == {k \in 1..Len(f2b) : in_encfs(src_path, f2b[k].encfs_front)}
        walked(f, k, tr) == [res |-> IF f.res = NULL THEN src_path ELSE f.res,
                             i2p |-> f.i2p, dirs |-> f.dirs, it |-> k, trace |-> tr]
        traced(k, tr) ==
            walked(follow_inode_trace(i2p, tr, f2b[k].encfs_back), k, tr)
        queried(k, q) ==
            IF q # NULL THEN out(q, k)
            ELSE traced(k, trace_inodes_back_to_base(src_path, f2b[k].encfs_front,
                                                     failing))
        probed(k, sb) ==
            IF sb.r # 0 \/ ~sb.reg THEN out(src_path, k)
            ELSE queried(k, query_inode_to_path_map(i2p, sb.st_ino))
        checked(sfsb) ==
            IF sfsb.r # 0 THEN out(NULL, 0)
            ELSE IF sfsb.f_type # FUSE_SUPER_MAGIC THEN out(src_path, 0)
            ELSE IF probes = {} THEN out(src_path, 0)
            ELSE probed(CHOOSE k \in probes : \A j \in probes : k <= j,
                        lstat(src_path))
    IN checked(statfs(src_path))

(***************************************************************************)
(* libprecache.c: the per-handle table and the state machine.              *)
(***************************************************************************)
AT_FDCWD == -100
DefaultCacheLimit == 1073741824

RDT_STATES == {"start", "readdir1_open0", "readdir1_open1", "readdir2_open1",
               "readdir2_open2", "readdir3_open2", "do_precaching", "skip"}

IsDotName(d_name) == d_name = Dot \/ d_name = DotDot

\* HASH_FIND_PTR: the index of the entry keyed by dirp, 0 when there is none
FindDirp(map, dirp) ==
    IF \E k \in 1..Len(map) : map[k].dirp = dirp
    THEN CHOOSE k \in 1..Len(map) : map[k].dirp = dirp
    ELSE 0

\* real_readdir to the end of the stream: the names, in stream order; the
\* cursor is an index into the list, Len + 1 standing for the null pointer
populate_dirent_list(dstate) ==
    [dstate EXCEPT !.dirent_list = getdents64(dstate.dirname).ents,
                   !.current_dirent = 1]

RECURSIVE InsertSorted(_, _)
InsertSorted(sorted, sae) ==
    IF sorted = <<>> THEN <<sae>>
    ELSE IF sae.physical_pos < Head(sorted).physical_pos THEN <<sae>> \o sorted
    ELSE <<Head(sorted)>> \o InsertSorted(Tail(sorted), sae)

\* a variant of the sort that leaves the array as it was filled
SortArray_unsorted(a) == a

RECURSIVE SortArray(_)
\* utarray_sort with sort_array_comparator (ascending physical_pos)
SortArray(a) == IF a = <<>> THEN <<>> ELSE InsertSorted(SortArray(Tail(a)), Head(a))

RECURSIVE PushExtents(_, _, _, _, _)
\* the for loop over fm_extents of one FS_IOC_FIEMAP answer: [pos, last, out]
PushExtents(file_name, st_size, exts, idx, acc) ==
    IF idx > Len(exts) THEN acc
    ELSE LET ext == exts[idx]
             len == IF ext.fe_logical <= st_size
                       /\ ext.fe_logical + ext.fe_length > st_size
                    THEN st_size - ext.fe_logical ELSE ext.fe_length
             sae == [file_name |-> file_name, physical_pos |-> ext.fe_physical,
                     file_offset |-> ext.fe_logical, extent_length |-> len]
         IN PushExtents(file_name, st_size, exts, idx + 1,
                        [pos |-> ext.fe_logical + ext.fe_length,
                         last |-> acc.last \/ ext.last,
                         out |-> Append(acc.out, sae)])

RECURSIVE FiemapLoop(_, _, _, _)
\* while (pos < st_size && !last_extent_seen); the kernel answers with the
\* extents that end after fm_start.  An empty answer leaves pos where it
\* was: the loop is cut there and reported as hang.
FiemapLoop(file_name, st_size, extents, acc) ==
    IF ~(acc.pos < st_size /\ ~acc.last) THEN [out |-> acc.out, hang |-> FALSE]
    ELSE LET answer == SelectSeq(extents,
                           LAMBDA e : e.fe_logical + e.fe_length > acc.pos)
         IN IF answer = <<>> THEN [out |-> acc.out, hang |-> TRUE]
            ELSE FiemapLoop(file_name, st_size, extents,
                            PushExtents(file_name, st_size, answer, 1, acc))

\* a variant of the budget test that looks at the total before the file is
\* added
over_limit_lax(size_so_far, st_size, cfg_cache_limit) ==
    size_so_far > cfg_cache_limit

\* whether the next file would take the running total past the limit
over_limit(size_so_far, st_size, cfg_cache_limit) ==
    size_so_far + st_size > cfg_cache_limit

RECURSIVE CacheLoop(_, _, _, _, _)
\* the for loop of cache_files from list index it on
CacheLoop(dstate, f2b, cfg_cache_limit, it, acc) ==
    LET mapped(fname, seen, o, fm) ==
            CacheLoop(dstate, f2b, cfg_cache_limit, it + 1,
                      [seen EXCEPT !.count = @ + 1,
                                   !.size_so_far = @ + o.st_size,
                                   !.files = Append(@, fname),
                                   !.sort_array = @ \o fm.out,
                                   !.hang = @ \/ fm.hang])
        opened(fname, seen, res, o) ==
            IF ~o.fd_ok
            THEN CacheLoop(dstate, f2b, cfg_cache_limit, it + 1,
                           [seen EXCEPT !.count = @ + 1])
            ELSE IF ~o.fstat_ok
            THEN [seen EXCEPT !.stop = TRUE, !.open_fds = @ + 1]
            ELSE IF over_limit(acc.size_so_far, o.st_size, cfg_cache_limit)
            THEN [seen EXCEPT !.stop = TRUE, !.open_fds = @ + 1]
            ELSE mapped(fname, seen, o,
                        FiemapLoop(res, o.st_size, o.extents,
                                   [pos |-> 0, last |-> FALSE, out |-> <<>>]))
        resolved(fname, rp) ==
            IF rp.res = FAULT
            THEN [acc EXCEPT !.i2p = rp.i2p, !.stop = TRUE, !.fault = TRUE]
            ELSE IF rp.res = NULL
            THEN [acc EXCEPT !.i2p = rp.i2p, !.stop = TRUE]
            ELSE opened(fname, [acc EXCEPT !.i2p = rp.i2p], rp.res, OpenFile(rp.res))
        named(fname) == resolved(fname, encfs_mapper_resolve_path(f2b, acc.i2p, fname, 0))
        entry(d_name) ==
            IF IsDotName(d_name)
            THEN CacheLoop(dstate, f2b, cfg_cache_limit, it + 1,
                           [acc EXCEPT !.count = @ + 1])
            ELSE named(dstate.dirname \o <<"/">> \o d_name)
    IN IF it > Len(dstate.dirent_list) \/ acc.stop \/ acc.hang THEN acc
       ELSE entry(dstate.dirent_list[it].d_name)

\* [cached_files_count, i2p, files, segments, reads, fault, hang, open_fds]:
\* the files whose extents were mapped, the segments in the order they were
\* pushed and in the order they were read, the descriptors left open
cache_files(dstate, f2b, i2p, env_limit) ==
    LET cfg_cache_limit == IF env_limit = <<>> THEN DefaultCacheLimit ELSE env_limit[1]
        done(acc) ==
            [cached_files_count |-> acc.count, i2p |-> acc.i2p, files |-> acc.files,
             segments |-> acc.sort_array,
             reads |-> SelectSeq(SortArray(acc.sort_array),
                                 LAMBDA sa : OpenFile(sa.file_name).fd_ok),
             fault |-> acc.fault, hang |-> acc.hang, open_fds |-> acc.open_fds]
    IN done(CacheLoop(dstate, f2b, cfg_cache_limit, dstate.current_dirent,
                      [i2p |-> i2p, size_so_far |-> 0, count |-> 0, files |-> <<>>,
                       sort_array |-> <<>>, stop |-> FALSE, fault |-> FALSE,
                       hang |-> FALSE, open_fds |-> 0]))

\* a variant of the switch of readdir that leaves precache after one read
readdir_fsm_once(fsm_state) ==
    CASE fsm_state = "start" -> "readdir1_open0"
      [] fsm_state = "readdir1_open0" -> "skip"
      [] fsm_state = "readdir1_open1" -> "readdir2_open1"
      [] fsm_state = "readdir2_open1" -> "skip"
      [] fsm_state = "readdir2_open2" -> "readdir3_open2"
      [] fsm_state = "readdir3_open2" -> "skip"
      [] fsm_state = "do_precaching" -> "skip"
      [] OTHER -> fsm_state

\* the switch of readdir
readdir_fsm(fsm_state) ==
    CASE fsm_state = "start" -> "readdir1_open0"
      [] fsm_state = "readdir1_open0" -> "skip"
      [] fsm_state = "readdir1_open1" -> "readdir2_open1"
      [] fsm_state = "readdir2_open1" -> "skip"
      [] fsm_state = "readdir2_open2" -> "readdir3_open2"
      [] fsm_state = "readdir3_open2" -> "skip"
      [] OTHER -> fsm_state

\* a variant of the switch of handle_openat that arms the prefetch one
\* round early
openat_fsm_eager(fsm_state) ==
    CASE fsm_state = "start" -> "skip"
      [] fsm_state = "readdir1_open0" -> "readdir1_open1"
      [] fsm_state = "readdir1_open1" -> "skip"
      [] fsm_state = "readdir2_open1" -> "readdir2_open2"
      [] fsm_state = "readdir2_open2" -> "do_precaching"
      [] fsm_state = "readdir3_open2" -> "do_precaching"
      [] OTHER -> fsm_state

\* the switch of handle_openat
openat_fsm(fsm_state) ==
    CASE fsm_state = "start" -> "skip"
      [] fsm_state = "readdir1_open0" -> "readdir1_open1"
      [] fsm_state = "readdir1_open1" -> "skip"
      [] fsm_state = "readdir2_open1" -> "readdir2_open2"
      [] fsm_state = "readdir2_open2" -> "skip"
      [] fsm_state = "readdir3_open2" -> "do_precaching"
      [] OTHER -> fsm_state

\* a variant of the caching condition that waits for a non-zero counter
readdir_caches_late(dstate) ==
    /\ dstate.current_dirent <= Len(dstate.dirent_list)
    /\ ~IsDotName(dstate.dirent_list[dstate.current_dirent].d_name)
    /\ dstate.fsm_state = "do_precaching"
    /\ dstate.cached_files_count > 0

\* a variant of the caching condition that does not look at the counter
readdir_caches_always(dstate) ==
    /\ dstate.current_dirent <= Len(dstate.dirent_list)
    /\ ~IsDotName(dstate.dirent_list[dstate.current_dirent].d_name)
    /\ dstate.fsm_state = "do_precaching"

\* whether readdir runs cache_files for the entry under the cursor
readdir_caches(dstate) ==
    /\ dstate.current_dirent <= Len(dstate.dirent_list)
    /\ ~IsDotName(dstate.dirent_list[dstate.current_dirent].d_name)
    /\ dstate.fsm_state = "do_precaching"
    /\ dstate.cached_files_count = 0

\* a variant of readdir on a tracked handle that leaves the cursor on a dot
\* entry
readdir_tracked_stuck(dstate, cached_count) ==
    LET cur == dstate.current_dirent
        d_name == dstate.dirent_list[cur].d_name
        count == IF readdir_caches(dstate) THEN cached_count
                 ELSE dstate.cached_files_count
    IN IF cur > Len(dstate.dirent_list) THEN [res |-> NULL, dstate |-> dstate]
       ELSE IF IsDotName(d_name)
       THEN [res |-> d_name, dstate |-> dstate]
       ELSE [res |-> d_name,
             dstate |-> [dstate EXCEPT
                 !.cached_files_count = IF count > 0 THEN count - 1 ELSE count,
                 !.fsm_state = readdir_fsm(dstate.fsm_state),
                 !.current_dirent = cur + 1]]

\* a variant of readdir on a tracked handle that moves the cursor on from the
\* end of the list as well
readdir_tracked_overrun(dstate, cached_count) ==
    LET cur == dstate.current_dirent
        count == IF readdir_caches(dstate) THEN cached_count
                 ELSE dstate.cached_files_count
    IN IF cur > Len(dstate.dirent_list)
       THEN [res |-> NULL, dstate |-> [dstate EXCEPT !.current_dirent = cur + 1]]
       ELSE IF IsDotName(dstate.dirent_list[cur].d_name)
       THEN [res |-> dstate.dirent_list[cur].d_name,
             dstate |-> [dstate EXCEPT !.current_dirent = cur + 1]]
       ELSE [res |-> dstate.dirent_list[cur].d_name,
             dstate |-> [dstate EXCEPT
                 !.cached_files_count = IF count > 0 THEN count - 1 ELSE count,
                 !.fsm_state = readdir_fsm(dstate.fsm_state),
                 !.current_dirent = cur + 1]]

\* readdir on a tracked handle, given what cache_files set the counter to
\* (when it ran): [res, dstate]
readdir_tracked(dstate, cached_count) ==
    LET cur == dstate.current_dirent
        d_name == dstate.dirent_list[cur].d_name
        count == IF readdir_caches(dstate) THEN cached_count
                 ELSE dstate.cached_files_count
    IN IF cur > Len(dstate.dirent_list) THEN [res |-> NULL, dstate |-> dstate]
       ELSE IF IsDotName(d_name)
       THEN [res |-> d_name, dstate |-> [dstate EXCEPT !.current_dirent = cur + 1]]
       ELSE [res |-> d_name,
             dstate |-> [dstate EXCEPT
                 !.cached_files_count = IF count > 0 THEN count - 1 ELSE count,
                 !.fsm_state = readdir_fsm(dstate.fsm_state),
                 !.current_dirent = cur + 1]]

openat_match(fname, dirname) ==
    /\ Len(fname) > Len(dirname) + 1
    /\ HasPrefix(fname, dirname)
    /\ ~HasCharFrom(fname, Len(dirname) + 1, "/")

\* the index of the entry handle_openat applies its switch to, 0 when it
\* applies it to none
openat_target(map, atfd, fname) ==
    LET matches == {k \in 1..Len(map) : openat_match(fname, map[k].dirname)}
    IN IF atfd # AT_FDCWD \/ matches = {} THEN 0
       ELSE CHOOSE k \in matches : \A j \in matches : k <= j

\* a variant of handle_openat that goes on after the first match
handle_openat_every(map, atfd, fname) ==
    IF atfd # AT_FDCWD THEN map
    ELSE [k \in 1..Len(map) |->
             IF openat_match(fname, map[k].dirname)
             THEN [map[k] EXCEPT !.fsm_state = openat_fsm(@)]
             ELSE map[k]]

\* the table after handle_openat
handle_openat(map, atfd, fname) ==
    LET matches == {k \in 1..Len(map) : openat_match(fname, map[k].dirname)}
        first == CHOOSE k \in matches : \A j \in matches : k <= j
    IN IF atfd # AT_FDCWD \/ matches = {} THEN map
       ELSE [map EXCEPT ![first].fsm_state = openat_fsm(@)]

\* the entry handle_opendir makes for dirp
new_dstate(dirname, dirp) ==
    populate_dirent_list([dirp |-> dirp, dirname |-> dirname, dirent_list |-> <<>>,
                          current_dirent |-> 1, cached_files_count |-> 0,
                          fsm_state |-> "start"])

\* the table after handle_opendir for a non-null dirp
handle_opendir(map, dirname, dirp) ==
    LET old == FindDirp(map, dirp)
        kept == IF old # 0 THEN RemoveAt(map, old) ELSE map
    IN Append(kept, new_dstate(dirname, dirp))

handle_closedir(map, dirp) ==
    IF FindDirp(map, dirp) # 0 THEN RemoveAt(map, FindDirp(map, dirp)) ELSE map

\* a variant of handle_rewinddir that resets the cursor alone
handle_rewinddir_cursor_only(map, dirp) ==
    IF FindDirp(map, dirp) = 0 THEN map
    ELSE [map EXCEPT ![FindDirp(map, dirp)].current_dirent = 1]

handle_rewinddir(map, dirp) ==
    IF FindDirp(map, dirp) = 0 THEN map
    ELSE [map EXCEPT ![FindDirp(map, dirp)].fsm_state = "start",
                     ![FindDirp(map, dirp)].current_dirent = 1]

(***************************************************************************)
(* segments.c, precache.c, precache_dir.c: the standalone tools.  Each run  *)
(* is a process of its own with resolver tables of its own.                *)
(***************************************************************************)
\* [segments, i2p, hang]: the segments appended for fname (the extent loop is
\* the one of cache_files), hang when that loop does not end
enumerate_file_segments(f2b, i2p, fname) ==
    LET none(rp) == [segments |-> <<>>, i2p |-> rp.i2p, hang |-> FALSE]
        mapped(rp, fm) == [segments |-> fm.out, i2p |-> rp.i2p, hang |-> fm.hang]
        opened(rp, o) ==
            IF ~o.fd_ok \/ ~o.fstat_ok THEN none(rp)
            ELSE mapped(rp, FiemapLoop(rp.res, o.st_size, o.extents,
                                       [pos |-> 0, last |-> FALSE, out |-> <<>>]))
        resolved(rp) ==
            IF rp.res = NULL \/ rp.res = FAULT THEN none(rp)
            ELSE opened(rp, OpenFile(rp.res))
    IN resolved(encfs_mapper_resolve_path(f2b, i2p, fname, 0))

RECURSIVE EnumerateAll(_, _, _, _)
\* the mapping loop of main over names[k..]: acc = [segments, i2p, hang]
EnumerateAll(f2b, names, k, acc) ==
    LET add(e) == EnumerateAll(f2b, names, k + 1,
                               [segments |-> acc.segments \o e.segments,
                                i2p |-> e.i2p, hang |-> e.hang])
    IN IF k > Len(names) \/ acc.hang THEN acc
       ELSE add(enumerate_file_segments(f2b, acc.i2p, names[k]))

RECURSIVE DL_SORT(_, _, _)
\* DL_SORT with segment_comparator: a stable sort by ascending physical_pos,
\* here by insertion of list[k..] into acc
DL_SORT(list, k, acc) ==
    IF k > Len(list) THEN acc ELSE DL_SORT(list, k + 1, InsertSorted(acc, list[k]))

\* precache.c, main with the file names argv[1..]: the one batch of the run
\* as [segments, reads, hang]; read_segment skips a segment whose file cannot
\* be opened; with hang the run never gets to sort and read
precache_main(argv, entries, proc_ok) ==
    LET read(sorted) == SelectSeq(sorted, LAMBDA seg : OpenFile(seg.file_name).fd_ok)
        batch(e) == [segments |-> e.segments,
                     reads |-> IF e.hang THEN <<>>
                               ELSE read(DL_SORT(e.segments, 1, <<>>)),
                     hang |-> e.hang]
        mapped(d) == batch(EnumerateAll(d.f2b, argv, 1,
                                        [segments |-> <<>>, i2p |-> d.i2p,
                                         hang |-> FALSE]))
    IN mapped(do_refresh_mounts(<<>>, {}, entries, proc_ok))

\* a variant of derive_new_tasks that takes subdirectories of every device
derive_new_tasks_anydev(dir_name, root_dir_st_dev) ==
    LET sub(de) == JoinPath(dir_name, de.d_name)
        taken(de) == /\ de.d_type = "dir" /\ ~IsDotName(de.d_name)
                     /\ Lookup(sub(de)).ok
        tasks(ents) == [k \in 1..Len(ents) |-> sub(ents[k])]
    IN tasks(SelectSeq(getdents64(dir_name).ents, taken))

\* the directories derive_new_tasks appends for dir_name: its subdirectories
\* on the device of the root directory
derive_new_tasks(dir_name, root_dir_st_dev) ==
    LET sub(de) == JoinPath(dir_name, de.d_name)
        taken(de) == /\ de.d_type = "dir" /\ ~IsDotName(de.d_name)
                     /\ Lookup(sub(de)).ok
                     /\ Lookup(sub(de)).n.fs = root_dir_st_dev
        tasks(ents) == [k \in 1..Len(ents) |-> sub(ents[k])]
    IN tasks(SelectSeq(getdents64(dir_name).ents, taken))

RECURSIVE DeriveAll(_, _, _)
DeriveAll(tasks, k, root_dir_st_dev) ==
    IF k > Len(tasks) THEN <<>>
    ELSE derive_new_tasks(tasks[k], root_dir_st_dev)
         \o DeriveAll(tasks, k + 1, root_dir_st_dev)

RECURSIVE ScanLevels(_, _, _)
\* the while (current_tasks != NULL) loop of precache_dir.c, main: one batch
\* per level, read from the raw device in sorted order; tasks are the
\* directories of the level
ScanLevels(current_tasks, root_dir_st_dev, batches) ==
    LET batch(e) == [tasks |-> current_tasks, segments |-> e.segments,
                     reads |-> DL_SORT(e.segments, 1, <<>>)]
    IN IF current_tasks = <<>> THEN batches
       ELSE ScanLevels(DeriveAll(current_tasks, 1, root_dir_st_dev), root_dir_st_dev,
                       Append(batches,
                              batch(EnumerateAll(<<>>, current_tasks, 1,
                                                 [segments |-> <<>>, i2p |-> {},
                                                  hang |-> FALSE]))))

RECURSIVE common_prefix_length(_, _, _)
\* the loop of common_prefix_length from position pos on
common_prefix_length(s1, s2, pos) ==
    IF At(s1, pos) # NUL /\ At(s2, pos) # NUL /\ At(s1, pos) = At(s2, pos)
    THEN common_prefix_length(s1, s2, pos + 1)
    ELSE pos

RECURSIVE GuessLoop(_, _, _, _)
\* the while loop of guess_device_for_path over lines[k..] of /proc/mounts,
\* a line being [device_path, mount_path]: sel = [length, device]
GuessLoop(path, lines, k, sel) ==
    LET line == lines[k]
        path_common_len == common_prefix_length(line.mount_path, path, 0)
    IN IF k > Len(lines) THEN sel
       ELSE GuessLoop(path, lines, k + 1,
                      IF At(line.device_path, 0) = "/" /\ path_common_len > sel.length
                      THEN [length |-> path_common_len, device |-> line.device_path]
                      ELSE sel)

\* the device path guessed for path, NULL when /proc/mounts cannot be read
\* (r # 0) or no line is selected
guess_device_for_path(path, lines, r) ==
    IF r # 0 THEN NULL
    ELSE GuessLoop(path, lines, 1, [length |-> 0, device |-> NULL]).device

\* precache_dir.c, main for a root directory and a raw device that can be
\* opened: the batches of the run, none when the root cannot be stat'ed
precache_dir_main(root_dir) ==
    LET rooted(x) == IF ~x.ok THEN <<>> ELSE ScanLevels(<<root_dir>>, x.n.fs, <<>>)
    IN rooted(Lookup(root_dir))

(***************************************************************************)
(* The environment: host threads, directory handles, paths, processes.     *)
(***************************************************************************)
Threads == {1, 2}
NoThread == 0
\* the DIR* values the C library hands out
Dirps == {1, 2}

P_d == <<"/", "d">>
P_e == <<"/", "e">>
P_m == <<"/", "m">>
P_x == <<"/", "x">>
P_b == <<"/", "b">>
P_c == <<"/", "c">>

\* directories the host lists
DirNames == {P_d, P_e}

\* paths the host opens: files of /d and /e, a file deeper than /d, a path
\* with /d as a mere character prefix, an unrelated file
OpenNames == {P_d \o <<"/", "p">>, P_e \o <<"/", "a">>, P_d \o <<"/", "s", "/", "g">>,
              P_d \o <<"x", "p">>, P_x}
OpenAtFds == {AT_FDCWD, 5}

\* paths handed to the resolver
ResolveNames == {P_m \o <<"/", "f">>, P_m \o <<"/", "/", "f">>,
                 P_m \o <<"/", "s", "/", "g">>,
                 P_m \o <<"/", "s", "/", "h">>, P_m, P_d \o <<"/", "v">>,
                 P_m \o <<"/", "k">>, P_c \o <<"/", "W">>}
ContextNames == {P_m, P_x, P_d \o <<"/", "v">>}

LimitValues == {<<>>, <<3>>}

ProcEntry(pid, args, readable) ==
    [is_pid_dir |-> TRUE, pid |-> pid, readable |-> readable, cmdline |-> Blob(args)]

\* the processes that may run: daemons for /m over /b and, with single
\* trailing slashes, over /c, a daemon started with an option and doubled
\* trailing slashes, one with a single positional argument, one that is no
\* daemon
ProcPool ==
    {ProcEntry(10, <<encfs, P_b, P_m>>, TRUE),
     ProcEntry(20, <<encfs, P_c \o <<"/">>, P_m \o <<"/">>>>, TRUE),
     ProcEntry(30, <<encfs, <<"-", "f">>, P_b \o <<"/", "/">>, P_m \o <<"/", "/">>>>, TRUE),
     ProcEntry(50, <<encfs, P_b>>, TRUE),
     ProcEntry(60, <<<<"s", "h">>, P_b, P_m>>, TRUE)}

\* no handle
NoState == [dirp |-> 0, dirname |-> <<>>, dirent_list |-> <<>>, current_dirent |-> 1,
            cached_files_count |-> 0, fsm_state |-> "start"]

\* ev.fresh: what the call did to the twin of its handle, [cached, res, files]
NoTwin == [cached |-> FALSE, res |-> NULL, files |-> <<>>]

NoEv == [op |-> "none", after |-> "none", dirp |-> 0, path |-> <<>>, atfd |-> 0,
         res |-> NULL, r |-> 0, fresh |-> NoTwin, prev |-> 0, scanned |-> FALSE, retired |-> {},
         dirs |-> <<>>, cached |-> FALSE, files |-> <<>>, reads |-> <<>>,
         batches |-> <<>>, levels |-> <<>>, mounts |-> <<>>, fds |-> 0, fault |-> FALSE,
         it |-> 0, trace |-> NOTRACE, failing |-> 0, hang |-> FALSE]

\* the program after construction, with the process table given
InitWith(table) ==
    /\ dirp_to_state_map = <<>>
    /\ front_to_back_map = <<>>
    /\ inode_to_path_map = {}
    /\ last_checked = 0
    /\ now = 1
    /\ procs = table
    /\ env_PRECACHE_LIMIT \in LimitValues
    /\ pc = [t \in Threads |-> "idle"]
    /\ mutex = NoThread
    /\ call = [t \in Threads |-> NoEv]
    /\ ev = NoEv
    /\ obs = [lastMaybeSec |-> 0,
              nreads |-> [d \in Dirps |-> 0],
              snap |-> [d \in Dirps |-> <<>>],
              fresh |-> [d \in Dirps |-> NoState],
              handed |-> [d \in Dirps |-> {}],
              uncovered |-> [d \in Dirps |-> 1],
              open |-> {}]

Init == InitWith(<<>>)

(***************************************************************************)
(* The intercepted calls of a single-threaded host, one action per call.   *)
(***************************************************************************)
\* obs.fresh[dirp] is the twin of the handle dirp: a handle opened on the same
\* directory when dirp was opened or last rewound, taken through the calls
\* made on dirp since.  obs.handed[dirp] are the files the prefetch passes on
\* dirp mapped since it was opened or last rewound, obs.uncovered[dirp] the
\* list index of the first entry the last of these passes did not count.
\* what each intercepted call does to the tables between lock and unlock
\* (handle_openat: without them); opendir(name) returns the so far unused
\* handle dirp
opendir_body(name, dirp, proc_ok) ==
    LET apply(rm, d) ==
            /\ d.ok
            /\ dirp_to_state_map' = handle_opendir(dirp_to_state_map, name, dirp)
            /\ front_to_back_map' = rm.f2b
            /\ inode_to_path_map' = rm.i2p
            /\ last_checked' = rm.last_checked
            /\ ev' = [NoEv EXCEPT !.op = "opendir", !.dirp = dirp, !.path = name,
                                  !.prev = obs.lastMaybeSec,
                                  !.scanned = rm.scanned, !.retired = rm.retired]
            /\ obs' = [obs EXCEPT !.lastMaybeSec = now, !.nreads[dirp] = 0,
                                  !.snap[dirp] = d.ents,
                                  !.fresh[dirp] = new_dstate(name, dirp),
                                  !.handed[dirp] = {}, !.uncovered[dirp] = 1]
    IN /\ apply(encfs_mapper_refresh_mounts(front_to_back_map, inode_to_path_map,
                                            last_checked, name, now, procs, proc_ok),
                getdents64(name))
       /\ UNCHANGED <<now, procs, env_PRECACHE_LIMIT>>

readdir_body(dirp) ==
    LET k == FindDirp(dirp_to_state_map, dirp)
        twin(runs, cf, rd) ==
            [cached |-> runs, res |-> rd.res, files |-> IF runs THEN cf.files ELSE <<>>,
             dstate |-> rd.dstate]
        twin_cached(f, cf) ==
            twin(readdir_caches(f), cf, readdir_tracked(f, cf.cached_files_count))
        twin_read(f) ==
            twin_cached(f, cache_files(f, front_to_back_map, inode_to_path_map,
                                       env_PRECACHE_LIMIT))
        observe(runs, cf, tw) ==
            obs' = [obs EXCEPT
                       !.nreads[dirp] = Min(@ + 1, Len(obs.snap[dirp]) + 1),
                       !.fresh[dirp] = tw.dstate,
                       !.handed[dirp] =
                           IF runs THEN @ \cup {cf.files[i] : i \in 1..Len(cf.files)}
                           ELSE @,
                       !.uncovered[dirp] =
                           IF runs THEN dirp_to_state_map[k].current_dirent
                                            + cf.cached_files_count
                           ELSE @]
        apply_twin(runs, cf, rd, tw) ==
            /\ dirp_to_state_map' = [dirp_to_state_map EXCEPT ![k] = rd.dstate]
            /\ inode_to_path_map' = IF runs THEN cf.i2p ELSE inode_to_path_map
            /\ observe(runs, cf, tw)
            /\ ev' = [NoEv EXCEPT !.op = "readdir", !.dirp = dirp, !.res = rd.res,
                                  !.fresh = [cached |-> tw.cached, res |-> tw.res,
                                             files |-> tw.files],
                                  !.cached = runs,
                                  !.files = IF runs THEN cf.files ELSE <<>>,
                                  !.reads = IF runs THEN cf.reads ELSE <<>>,
                                  !.batches = IF runs
                                              THEN <<[segments |-> cf.segments,
                                                      reads |-> cf.reads]>>
                                              ELSE <<>>,
                                  !.fds = IF runs THEN cf.open_fds ELSE 0,
                                  !.fault = runs /\ cf.fault,
                                  !.hang = runs /\ cf.hang]
        apply(runs, cf, rd) == apply_twin(runs, cf, rd, twin_read(obs.fresh[dirp]))
        cached(dstate, cf) ==
            apply(readdir_caches(dstate), cf,
                  readdir_tracked(dstate, cf.cached_files_count))
        tracked(dstate) ==
            cached(dstate, cache_files(dstate, front_to_back_map, inode_to_path_map,
                                       env_PRECACHE_LIMIT))
    IN /\ k # 0
       /\ tracked(dirp_to_state_map[k])
       /\ UNCHANGED <<front_to_back_map, last_checked, now, procs,
                      env_PRECACHE_LIMIT>>

closedir_body(dirp) ==
    /\ FindDirp(dirp_to_state_map, dirp) # 0
    /\ dirp_to_state_map' = handle_closedir(dirp_to_state_map, dirp)
    /\ ev' = [NoEv EXCEPT !.op = "closedir", !.dirp = dirp]
    /\ obs' = [obs EXCEPT !.nreads[dirp] = 0, !.snap[dirp] = <<>>,
                          !.fresh[dirp] = NoState,
                          !.handed[dirp] = {}, !.uncovered[dirp] = 1]
    /\ UNCHANGED <<front_to_back_map, inode_to_path_map, last_checked, now, procs,
                   env_PRECACHE_LIMIT>>

rewinddir_body(dirp) ==
    /\ FindDirp(dirp_to_state_map, dirp) # 0
    /\ dirp_to_state_map' = handle_rewinddir(dirp_to_state_map, dirp)
    /\ ev' = [NoEv EXCEPT !.op = "rewinddir", !.dirp = dirp]
    /\ obs' = [obs EXCEPT !.nreads[dirp] = 0,
                          !.handed[dirp] = {}, !.uncovered[dirp] = 1,
                          !.fresh[dirp] =
                              new_dstate(dirp_to_state_map[
                                             FindDirp(dirp_to_state_map, dirp)].dirname,
                                         dirp)]
    /\ UNCHANGED <<front_to_back_map, inode_to_path_map, last_checked, now, procs,
                   env_PRECACHE_LIMIT>>

\* the twins after the switch of handle_openat was applied to the entry at
\* index k of map (to none when k = 0)
TwinsAfterOpen(fresh, map, k) ==
    IF k = 0 THEN fresh
    ELSE [fresh EXCEPT ![map[k].dirp].fsm_state = openat_fsm(@)]

\* open(fname) is openat(AT_FDCWD, fname)
openat_body(atfd, fname) ==
    /\ dirp_to_state_map' = handle_openat(dirp_to_state_map, atfd, fname)
    /\ ev' = [NoEv EXCEPT !.op = "openat", !.atfd = atfd, !.path = fname]
    /\ obs' = [obs EXCEPT !.fresh = TwinsAfterOpen(@, dirp_to_state_map,
                                                   openat_target(dirp_to_state_map,
                                                                 atfd, fname))]
    /\ UNCHANGED <<front_to_back_map, inode_to_path_map, last_checked, now, procs,
                   env_PRECACHE_LIMIT>>

\* with one host thread the handles the C library has open are those of the
\* table, and real_opendir returns none of them
opendir(name, dirp, proc_ok) ==
    /\ FindDirp(dirp_to_state_map, dirp) = 0
    /\ opendir_body(name, dirp, proc_ok)
    /\ UNCHANGED <<pc, mutex, call>>

readdir(dirp) == readdir_body(dirp) /\ UNCHANGED <<pc, mutex, call>>

closedir(dirp) == closedir_body(dirp) /\ UNCHANGED <<pc, mutex, call>>

rewinddir(dirp) == rewinddir_body(dirp) /\ UNCHANGED <<pc, mutex, call>>

openat(atfd, fname) == openat_body(atfd, fname) /\ UNCHANGED <<pc, mutex, call>>

NextFsm ==
    \/ \E name \in DirNames, dirp \in Dirps : opendir(name, dirp, TRUE)
    \/ \E dirp \in Dirps : readdir(dirp)
    \/ \E dirp \in Dirps : closedir(dirp)
    \/ \E dirp \in Dirps : rewinddir(dirp)
    \/ \E atfd \in OpenAtFds, fname \in OpenNames : openat(atfd, fname)

SpecFsm == Init /\ [][NextFsm]_vars

(***************************************************************************)
(* The three modes side by side: the library in a host process, and runs   *)
(* of precache and precache-dir, which are processes of their own and       *)
(* leave the host's tables alone.                                          *)
(***************************************************************************)
\* file name lists given to precache
ToolArgvs == {<<P_d \o <<"/", "s">>, P_d \o <<"/", "p">>>>,
              <<P_m \o <<"/", "f">>, P_d \o <<"/", "t">>, P_d \o <<"/", "u">>,
                P_d \o <<"/", "v">>, P_d \o <<"/", "w">>>>,
              <<<<"/", "o">>, <<"/", "z">>, P_d \o <<"/", "p">>>>}

\* the process table a run of precache finds
ToolProcTables == {<<>>, <<ProcEntry(10, <<encfs, P_b, P_m>>, TRUE)>>}

\* root directories given to precache-dir
ToolRoots == {<<"/">>, P_b \o <<"/">>, P_x \o <<"/", "n">>}

precache(argv, entries, proc_ok) ==
    LET apply(run) ==
            ev' = [NoEv EXCEPT !.op = "precache", !.path = Head(argv),
                               !.batches = IF run.hang THEN <<>>
                                           ELSE <<[segments |-> run.segments,
                                                   reads |-> run.reads]>>,
                               !.hang = run.hang]
    IN /\ apply(precache_main(argv, entries, proc_ok))
    /\ UNCHANGED <<dirp_to_state_map, front_to_back_map, inode_to_path_map,
                   last_checked, now, procs, env_PRECACHE_LIMIT, pc, mutex, call,
                   obs>>

precache_dir(root_dir) ==
    LET apply(run) ==
            ev' = [NoEv EXCEPT !.op = "precache_dir", !.path = root_dir,
                               !.batches = [k \in 1..Len(run) |->
                                               [segments |-> run[k].segments,
                                                reads |-> run[k].reads]],
                               !.levels = [k \in 1..Len(run) |-> run[k].tasks]]
    IN /\ apply(precache_dir_main(root_dir))
    /\ UNCHANGED <<dirp_to_state_map, front_to_back_map, inode_to_path_map,
                   last_checked, now, procs, env_PRECACHE_LIMIT, pc, mutex, call,
                   obs>>

MountLine(device_path, mount_path) ==
    [device_path |-> device_path, mount_path |-> mount_path]

\* lines of /proc/mounts: the root filesystem, a device mounted at /b, one
\* mounted beneath it at /b/A, one at /bb, and a pseudo filesystem
MountPool ==
    {MountLine(<<"/", "s", "0">>, <<"/">>),
     MountLine(<<"/", "s", "1">>, P_b),
     MountLine(<<"/", "s", "2">>, P_b \o <<"/", "A">>),
     MountLine(<<"/", "s", "3">>, P_b \o <<"b">>),
     MountLine(<<"p", "r", "o", "c">>, <<"/", "p">>)}

\* the most lines one /proc/mounts of the model has
MaxMounts == 3

\* the contents of /proc/mounts: lines of the pool in any order
MountTables ==
    UNION {{t \in [1..n -> MountPool] : \A i, j \in 1..n : t[i] = t[j] => i = j} :
              n \in 1..MaxMounts}

\* root directories for which precache-dir guesses the device
GuessRoots == {P_b, P_b \o <<"/">>}

\* precache-dir <root-dir> up to the guess of the raw device
guess_device(root_dir, lines, r) ==
    /\ ev' = [NoEv EXCEPT !.op = "guess_device", !.path = root_dir, !.r = r,
                          !.mounts = lines,
                          !.res = guess_device_for_path(root_dir, lines, r)]
    /\ UNCHANGED <<dirp_to_state_map, front_to_back_map, inode_to_path_map,
                   last_checked, now, procs, env_PRECACHE_LIMIT, pc, mutex, call,
                   obs>>

\* the host of the library holds one directory handle at a time
ModeDirps == {1}

NextModes ==
    \/ \E name \in DirNames, dirp \in ModeDirps : opendir(name, dirp, TRUE)
    \/ \E dirp \in ModeDirps : readdir(dirp)
    \/ \E dirp \in ModeDirps : closedir(dirp)
    \/ \E dirp \in ModeDirps : rewinddir(dirp)
    \/ \E atfd \in OpenAtFds, fname \in OpenNames : openat(atfd, fname)
    \/ \E argv \in ToolArgvs, entries \in ToolProcTables, proc_ok \in BOOLEAN :
           precache(argv, entries, proc_ok)
    \/ \E root_dir \in ToolRoots : precache_dir(root_dir)

SpecModes == Init /\ [][NextModes]_vars

\* runs of precache-dir without a raw-device argument: the guess from
\* /proc/mounts, then the traversal
NextGuess ==
    \/ \E root_dir \in GuessRoots, lines \in MountTables, r \in {0, -1} :
           guess_device(root_dir, lines, r)
    \/ \E root_dir \in ToolRoots : precache_dir(root_dir)

SpecGuess == Init /\ [][NextGuess]_vars

(***************************************************************************)
(* The resolver's entry points, called directly (as precache and           *)
(* precache_dir do), with the process table and the clock moving between   *)
(* the calls.                                                              *)
(***************************************************************************)
\* the process has not ended in a fault
Running == ev.res # FAULT

force_refresh_mounts(proc_ok) ==
    LET apply(d) ==
            /\ front_to_back_map' = d.f2b
            /\ inode_to_path_map' = d.i2p
            /\ ev' = [NoEv EXCEPT !.op = "force_refresh_mounts",
                                  !.after = IF ev.op = "force_refresh_mounts" /\ ev.r = 0
                                            THEN ev.op ELSE "none",
                                  !.r = d.r, !.scanned = TRUE,
                                  !.retired = d.retired]
    IN /\ Running
       /\ apply(do_refresh_mounts(front_to_back_map, inode_to_path_map, procs, proc_ok))
       /\ UNCHANGED <<dirp_to_state_map, last_checked, now, procs,
                      env_PRECACHE_LIMIT, pc, mutex, call, obs>>

refresh_mounts(current_path, proc_ok) ==
    LET apply(rm) ==
            /\ front_to_back_map' = rm.f2b
            /\ inode_to_path_map' = rm.i2p
            /\ last_checked' = rm.last_checked
            /\ ev' = [NoEv EXCEPT !.op = "refresh_mounts", !.path = current_path,
                                  !.r = rm.r, !.prev = obs.lastMaybeSec,
                                  !.scanned = rm.scanned, !.retired = rm.retired]
    IN /\ Running
       /\ apply(encfs_mapper_refresh_mounts(front_to_back_map, inode_to_path_map,
                                            last_checked, current_path, now, procs,
                                            proc_ok))
       /\ obs' = [obs EXCEPT !.lastMaybeSec = now]
       /\ UNCHANGED <<dirp_to_state_map, now, procs, env_PRECACHE_LIMIT, pc,
                      mutex, call>>

\* failing: the ordinal of the lstat call of the inode trace that fails, 0
\* when none does
resolve_path(src_path, failing) ==
    LET apply(rp) ==
            /\ inode_to_path_map' = rp.i2p
            /\ ev' = [NoEv EXCEPT !.op = "resolve_path", !.path = src_path,
                                  !.res = rp.res, !.dirs = rp.dirs,
                                  !.it = rp.it, !.trace = rp.trace,
                                  !.failing = failing]
    IN /\ Running
       /\ apply(encfs_mapper_resolve_path(front_to_back_map, inode_to_path_map,
                                          src_path, failing))
       /\ UNCHANGED <<dirp_to_state_map, front_to_back_map, last_checked, now,
                      procs, env_PRECACHE_LIMIT, pc, mutex, call, obs>>

\* the wall clock reaches the next second
tick ==
    /\ Running
    /\ now < MaxTime
    /\ now' = now + 1
    /\ ev' = [NoEv EXCEPT !.op = "tick"]
    /\ UNCHANGED <<dirp_to_state_map, front_to_back_map, inode_to_path_map,
                   last_checked, procs, env_PRECACHE_LIMIT, pc, mutex, call, obs>>

\* the process table with p added, in ascending pid order
WithProc(table, p) ==
    LET before == SelectSeq(table, LAMBDA q : q.pid < p.pid)
        after == SelectSeq(table, LAMBDA q : q.pid > p.pid)
    IN before \o <<p>> \o after

\* a process starts
spawn(p) ==
    /\ Running
    /\ Len(procs) < MaxProcs
    /\ \A k \in 1..Len(procs) : procs[k].pid # p.pid
    /\ procs' = WithProc(procs, p)
    /\ ev' = [NoEv EXCEPT !.op = "spawn"]
    /\ UNCHANGED <<dirp_to_state_map, front_to_back_map, inode_to_path_map,
                   last_checked, now, env_PRECACHE_LIMIT, pc, mutex, call, obs>>

\* the k-th process of the table exits
exit(k) ==
    /\ Running
    /\ k \in 1..Len(procs)
    /\ procs' = RemoveAt(procs, k)
    /\ ev' = [NoEv EXCEPT !.op = "exit"]
    /\ UNCHANGED <<dirp_to_state_map, front_to_back_map, inode_to_path_map,
                   last_checked, now, env_PRECACHE_LIMIT, pc, mutex, call, obs>>

NextMounts ==
    \/ \E proc_ok \in BOOLEAN : force_refresh_mounts(proc_ok)
    \/ \E current_path \in ContextNames, proc_ok \in BOOLEAN :
           refresh_mounts(current_path, proc_ok)
    \/ \E src_path \in ResolveNames : resolve_path(src_path, 0)
    \/ tick
    \/ \E p \in ProcPool : spawn(p)
    \/ \E k \in 1..MaxProcs : exit(k)

\* the standalone tools do not read PRECACHE_LIMIT
InitMounts == Init /\ env_PRECACHE_LIMIT = <<>>

SpecMounts == InitMounts /\ [][NextMounts]_vars

(***************************************************************************)
(* The resolver under a process table that does not change, with two       *)
(* overlays and with lstat calls that fail while a path is traced.         *)
(***************************************************************************)
P_n == <<"/", "n">>

\* files of the overlay /m, one of them written with a doubled separator, a
\* file of the overlay /n, a file of the overlay /mx
OverlayNames == {P_m \o <<"/", "f">>, P_m \o <<"/", "/", "f">>,
                 P_m \o <<"/", "s", "/", "g">>, P_m \o <<"/", "s", "/", "h">>,
                 P_n \o <<"/", "w">>, P_m \o <<"x", "/", "f">>}

\* daemons for /m over /b, for /m over /c and for /n over /c
OverlayPool ==
    {ProcEntry(10, <<encfs, P_b, P_m>>, TRUE),
     ProcEntry(20, <<encfs, P_c \o <<"/">>, P_m \o <<"/">>>>, TRUE),
     ProcEntry(40, <<encfs, P_c, P_n>>, TRUE)}

\* the process tables of at most MaxProcs of these, in ascending pid order
OverlayTables ==
    {t \in UNION {[1..n -> OverlayPool] : n \in 0..MaxProcs} :
        \A i, j \in 1..Len(t) : i < j => t[i].pid < t[j].pid}

NextOverlays ==
    \/ \E proc_ok \in BOOLEAN : force_refresh_mounts(proc_ok)
    \/ \E src_path \in OverlayNames, failing \in 0..MaxFailing :
           resolve_path(src_path, failing)

InitOverlays ==
    \E table \in OverlayTables : InitWith(table) /\ env_PRECACHE_LIMIT = <<>>

SpecOverlays == InitOverlays /\ [][NextOverlays]_vars

(***************************************************************************)
(* Library mode with several host threads: each intercepted call is a      *)
(* thread's walk through lock(), its critical section and unlock(), except *)
(* handle_openat, which has neither.                                       *)
(***************************************************************************)
ThreadDirNames == {P_e}
ThreadOpenNames == {P_e \o <<"/", "a">>}

\* obs.open are the handles the C library has open: a DIR* is open from
\* real_opendir to real_closedir, both of which run outside the mutex, before
\* handle_opendir and handle_closedir take it.

\* no other thread is in a call on the open handle dirp: a thread inside
\* closedir(dirp) has closed an earlier handle of that identity
NotInUse(t, dirp) ==
    \A u \in Threads \ {t} :
        pc[u] = "idle" \/ call[u].dirp # dirp \/ call[u].op = "closedir"

\* thread t enters opendir; real_opendir hands out a dirp that is not open
call_opendir(t, name, dirp) ==
    /\ pc[t] = "idle"
    /\ dirp \notin obs.open
    /\ getdents64(name).ok
    /\ pc' = [pc EXCEPT ![t] = "lock"]
    /\ call' = [call EXCEPT ![t] = [NoEv EXCEPT !.op = "opendir", !.dirp = dirp,
                                                !.path = name]]
    /\ obs' = [obs EXCEPT !.open = @ \cup {dirp}]
    /\ UNCHANGED <<dirp_to_state_map, front_to_back_map, inode_to_path_map,
                   last_checked, now, procs, env_PRECACHE_LIMIT, mutex, ev>>

\* thread t enters readdir, closedir or rewinddir on a handle it has open;
\* closedir calls real_closedir at once
call_on_dirp(t, op, dirp) ==
    /\ pc[t] = "idle"
    /\ dirp \in obs.open /\ NotInUse(t, dirp)
    /\ pc' = [pc EXCEPT ![t] = "lock"]
    /\ call' = [call EXCEPT ![t] = [NoEv EXCEPT !.op = op, !.dirp = dirp]]
    /\ obs' = [obs EXCEPT !.open = IF op = "closedir" THEN @ \ {dirp} ELSE @]
    /\ UNCHANGED <<dirp_to_state_map, front_to_back_map, inode_to_path_map,
                   last_checked, now, procs, env_PRECACHE_LIMIT, mutex, ev>>

\* the library is unloaded on thread t
call_destructor(t) ==
    /\ pc[t] = "idle"
    /\ pc' = [pc EXCEPT ![t] = "lock"]
    /\ call' = [call EXCEPT ![t] = [NoEv EXCEPT !.op = "destructor"]]
    /\ UNCHANGED <<dirp_to_state_map, front_to_back_map, inode_to_path_map,
                   last_checked, now, procs, env_PRECACHE_LIMIT, mutex, ev, obs>>

\* thread t enters open or openat and reaches handle_openat
call_openat(t, atfd, fname) ==
    /\ pc[t] = "idle"
    /\ pc' = [pc EXCEPT ![t] = "handle_openat"]
    /\ call' = [call EXCEPT ![t] = [NoEv EXCEPT !.op = "openat", !.atfd = atfd,
                                                !.path = fname]]
    /\ UNCHANGED <<dirp_to_state_map, front_to_back_map, inode_to_path_map,
                   last_checked, now, procs, env_PRECACHE_LIMIT, mutex, ev, obs>>

\* pthread_mutex_lock returns
lock(t) ==
    /\ pc[t] = "lock" /\ mutex = NoThread
    /\ mutex' = t
    /\ pc' = [pc EXCEPT ![t] = "critical"]
    /\ UNCHANGED <<dirp_to_state_map, front_to_back_map, inode_to_path_map,
                   last_checked, now, procs, env_PRECACHE_LIMIT, call, ev, obs>>

\* a call on a dirp the table does not have changes nothing
untracked_body(op, dirp) ==
    /\ ev' = [NoEv EXCEPT !.op = op, !.dirp = dirp]
    /\ UNCHANGED <<dirp_to_state_map, front_to_back_map, inode_to_path_map,
                   last_checked, now, procs, env_PRECACHE_LIMIT, obs>>

destructor_body ==
    /\ front_to_back_map' = <<>>
    /\ inode_to_path_map' = {}
    /\ dirp_to_state_map' = <<>>
    /\ ev' = [NoEv EXCEPT !.op = "destructor"]
    /\ obs' = [obs EXCEPT !.nreads = [d \in Dirps |-> 0],
                          !.snap = [d \in Dirps |-> <<>>],
                          !.fresh = [d \in Dirps |-> NoState],
                          !.handed = [d \in Dirps |-> {}],
                          !.uncovered = [d \in Dirps |-> 1]]
    /\ UNCHANGED <<last_checked, now, procs, env_PRECACHE_LIMIT>>

\* whether the readdir of thread t runs a prefetch pass whose extent
\* enumeration does not end
readdir_hangs(t) ==
    LET k == FindDirp(dirp_to_state_map, call[t].dirp)
        hung(cf) == cf.hang
    IN /\ call[t].op = "readdir"
       /\ k # 0
       /\ readdir_caches(dirp_to_state_map[k])
       /\ hung(cache_files(dirp_to_state_map[k], front_to_back_map,
                           inode_to_path_map, env_PRECACHE_LIMIT))

\* the critical section of thread t's call, up to and including unlock()
critical(t) ==
    /\ pc[t] = "critical"
    /\ ~readdir_hangs(t)
    /\ CASE call[t].op = "opendir" ->
                opendir_body(call[t].path, call[t].dirp, TRUE)
         [] call[t].op = "destructor" -> destructor_body
         [] FindDirp(dirp_to_state_map, call[t].dirp) = 0 ->
                untracked_body(call[t].op, call[t].dirp)
         [] call[t].op = "readdir" -> readdir_body(call[t].dirp)
         [] call[t].op = "closedir" -> closedir_body(call[t].dirp)
         [] call[t].op = "rewinddir" -> rewinddir_body(call[t].dirp)
    /\ mutex' = NoThread
    /\ pc' = [pc EXCEPT ![t] = "idle"]
    /\ UNCHANGED call

\* the tables handle_openat may leave when its walk overlaps another
\* thread's critical section: the update made, or lost to the other
\* thread's write
RacedTables(map, atfd, fname) == {handle_openat(map, atfd, fname), map}

\* handle_openat of thread t walks the table and returns
walk_openat(t) ==
    /\ pc[t] = "handle_openat"
    /\ IF \E u \in Threads \ {t} : pc[u] = "critical"
       THEN dirp_to_state_map' \in RacedTables(dirp_to_state_map, call[t].atfd,
                                               call[t].path)
       ELSE dirp_to_state_map' = handle_openat(dirp_to_state_map, call[t].atfd,
                                               call[t].path)
    /\ ev' = [NoEv EXCEPT !.op = "openat", !.atfd = call[t].atfd,
                          !.path = call[t].path,
                          !.fault = \E u \in Threads \ {t} : pc[u] = "critical"]
    /\ obs' = [obs EXCEPT !.fresh = TwinsAfterOpen(@, dirp_to_state_map,
                                                   openat_target(dirp_to_state_map,
                                                                 call[t].atfd,
                                                                 call[t].path))]
    /\ pc' = [pc EXCEPT ![t] = "idle"]
    /\ UNCHANGED <<front_to_back_map, inode_to_path_map, last_checked, now, procs,
                   env_PRECACHE_LIMIT, mutex, call>>

NextThreads ==
    \E t \in Threads :
        \/ \E name \in ThreadDirNames, dirp \in Dirps : call_opendir(t, name, dirp)
        \/ \E op \in {"readdir", "closedir", "rewinddir"}, dirp \in Dirps :
               call_on_dirp(t, op, dirp)
        \/ call_destructor(t)
        \/ \E fname \in ThreadOpenNames : call_openat(t, AT_FDCWD, fname)
        \/ lock(t)
        \/ critical(t)
        \/ walk_openat(t)

InitThreads == Init /\ env_PRECACHE_LIMIT = <<>>

SpecThreads == InitThreads /\ [][NextThreads]_vars

(***************************************************************************)
(* The threads under a fair scheduler, listing a directory that holds a    *)
(* file without allocated blocks.                                          *)
(***************************************************************************)
P_h == <<"/", "h">>
LiveDirNames == {P_h}
LiveOpenNames == {P_h \o <<"/", "i">>}
LiveDirps == {1}

\* the readdir of thread t enters cache_files and stays in the loop of the
\* extent queries, each of which returns, with the mutex held
enter_cache_files(t) ==
    /\ pc[t] = "critical"
    /\ readdir_hangs(t)
    /\ pc' = [pc EXCEPT ![t] = "cache_files"]
    /\ ev' = [NoEv EXCEPT !.op = "readdir", !.dirp = call[t].dirp, !.cached = TRUE,
                          !.hang = TRUE]
    /\ UNCHANGED <<dirp_to_state_map, front_to_back_map, inode_to_path_map,
                   last_checked, now, procs, env_PRECACHE_LIMIT, mutex, call, obs>>

NextLive ==
    \E t \in Threads :
        \/ \E name \in LiveDirNames, dirp \in LiveDirps : call_opendir(t, name, dirp)
        \/ \E op \in {"readdir", "closedir", "rewinddir"}, dirp \in LiveDirps :
               call_on_dirp(t, op, dirp)
        \/ call_destructor(t)
        \/ \E fname \in LiveOpenNames : call_openat(t, AT_FDCWD, fname)
        \/ lock(t)
        \/ critical(t)
        \/ enter_cache_files(t)
        \/ walk_openat(t)

\* thread t leaves its critical section or handle_openat: the step of
\* critical(t), enter_cache_files(t) or walk_openat(t), as the change of the
\* thread's position
runs(t) ==
    \E at \in {"critical", "handle_openat"}, to \in {"idle", "cache_files"} :
        pc[t] = at /\ pc' = [pc EXCEPT ![t] = to]

\* a thread that runs keeps running; a thread waiting in pthread_mutex_lock
\* gets the mutex if it is released again and again
FairThreads ==
    \A t \in Threads : SF_vars(lock(t)) /\ WF_pc(runs(t))

SpecLive == InitThreads /\ [][NextLive]_vars /\ FairThreads

(***************************************************************************)
(* Properties of the state machine and of the directory snapshot.          *)
(***************************************************************************)
\* the transition table of the design: state x event -> state
FsmTable(state, event) ==
    IF event = "read"
    THEN CASE state = "start" -> "readdir1_open0"
           [] state = "readdir1_open1" -> "readdir2_open1"
           [] state = "readdir2_open2" -> "readdir3_open2"
           [] state \in {"readdir1_open0", "readdir2_open1", "readdir3_open2"} -> "skip"
           [] OTHER -> state
    ELSE IF event = "open"
    THEN CASE state = "readdir1_open0" -> "readdir1_open1"
           [] state = "readdir2_open1" -> "readdir2_open2"
           [] state = "readdir3_open2" -> "do_precaching"
           [] state \in {"start", "readdir1_open1", "readdir2_open2"} -> "skip"
           [] OTHER -> state
    ELSE state

\* an open whose path begins with the directory name and has no further '/'
MatchingOpen(fname, dirname) ==
    /\ Len(fname) > Len(dirname) + 1
    /\ SubSeq(fname, 1, Len(dirname)) = dirname
    /\ \A i \in (Len(dirname) + 2)..Len(fname) : fname[i] # "/"

\* a read-entry on handle h that surfaces a non-dot entry
SurfacesEntry(h, e) ==
    /\ e.op = "readdir" /\ e.dirp = h.dirp
    /\ h.current_dirent <= Len(h.dirent_list)
    /\ ~IsDotName(h.dirent_list[h.current_dirent].d_name)

\* what the event e is for the handle at index k: every matching open counts
EventForEvery(k, e) ==
    LET h == dirp_to_state_map[k] IN
    IF SurfacesEntry(h, e) THEN "read"
    ELSE IF e.op = "openat" /\ MatchingOpen(e.path, h.dirname) THEN "open"
    ELSE "hold"

\* the same, a matching open counting only when it is made relative to the
\* working directory and for the earliest handle in the table it matches
EventForFirst(k, e) ==
    LET h == dirp_to_state_map[k] IN
    IF SurfacesEntry(h, e) THEN "read"
    ELSE IF /\ e.op = "openat" /\ e.atfd = AT_FDCWD
            /\ MatchingOpen(e.path, h.dirname)
            /\ \A j \in 1..(k - 1) : ~MatchingOpen(e.path, dirp_to_state_map[j].dirname)
    THEN "open"
    ELSE "hold"

\* C1 as stated: after every read-entry or open-file event the state of
\* every handle is the one the transition table gives, a matching open
\* moving every handle whose directory it matches.
C1_TableForEveryHandle ==
    [][ev'.op \in {"readdir", "openat"} =>
        \A k \in 1..Len(dirp_to_state_map) :
            dirp_to_state_map'[k].fsm_state =
                FsmTable(dirp_to_state_map[k].fsm_state, EventForEvery(k, ev'))]_vars

\* C1 amended: after every read-entry or open-file event the state of every
\* handle is the one the transition table gives, where a matching open is an
\* event only for the earliest handle in the table whose directory it
\* matches and only when made relative to the working directory; for every
\* other handle it holds the state.
C1_TableForFirstHandle ==
    [][ev'.op \in {"readdir", "openat"} =>
        \A k \in 1..Len(dirp_to_state_map) :
            dirp_to_state_map'[k].fsm_state =
                FsmTable(dirp_to_state_map[k].fsm_state, EventForFirst(k, ev'))]_vars

\* two handles on one directory: the third matching open took the first to
\* precache and held the second, which had seen one read
C1_Witness ==
    /\ ev.op = "openat" /\ ev.atfd = AT_FDCWD
    /\ Len(dirp_to_state_map) = 2
    /\ dirp_to_state_map[1].dirname = dirp_to_state_map[2].dirname
    /\ MatchingOpen(ev.path, dirp_to_state_map[1].dirname)
    /\ dirp_to_state_map[1].fsm_state = "do_precaching"
    /\ dirp_to_state_map[2].fsm_state = "readdir1_open0"

\* the k-th read-entry since open or rewind on a snapshot
ExpectedEntry(snap, k) == IF k <= Len(snap) THEN snap[k].d_name ELSE NULL

\* C4: the n-th read-entry since open-directory or rewind returns the n-th
\* element of the list materialized at open time, and end-of-directory once
\* the list is exhausted, whatever the FSM state and whether or not a
\* prefetch ran.
C4_ReadsFollowSnapshot ==
    ev.op = "readdir" => ev.res = ExpectedEntry(obs.snap[ev.dirp], obs.nreads[ev.dirp])

\* a read-entry past the end of the list on a handle that prefetched
C4_Witness ==
    /\ ev.op = "readdir" /\ ev.res = NULL
    /\ \E k \in 1..Len(dirp_to_state_map) :
          /\ dirp_to_state_map[k].dirp = ev.dirp
          /\ dirp_to_state_map[k].fsm_state = "do_precaching"
          /\ Len(dirp_to_state_map[k].dirent_list) > 0

\* a read-entry on handle h that finds the state machine in precache with
\* nothing prefetched and surfaces a non-dot entry
PrefetchDue(h, e) ==
    SurfacesEntry(h, e) /\ h.fsm_state = "do_precaching" /\ h.cached_files_count = 0

EntryPath(h, i) == h.dirname \o <<"/">> \o h.dirent_list[i].d_name

RECURSIVE RemainingFiles(_, _)
\* the paths of the non-dot entries from list index i to the end of the list
RemainingFiles(h, i) ==
    IF i > Len(h.dirent_list) THEN <<>>
    ELSE IF IsDotName(h.dirent_list[i].d_name) THEN RemainingFiles(h, i + 1)
    ELSE <<EntryPath(h, i)>> \o RemainingFiles(h, i + 1)

CacheLimit == IF env_PRECACHE_LIMIT = <<>> THEN DefaultCacheLimit ELSE env_PRECACHE_LIMIT[1]

RECURSIVE FilesUntilStop(_, _, _)
\* the same, ending before the first entry that cannot be resolved (statfs
\* fails) or stat'ed or whose size would take the total past the cache
\* limit, and without the entries that cannot be opened
FilesUntilStop(h, i, total) ==
    IF i > Len(h.dirent_list) THEN <<>>
    ELSE IF IsDotName(h.dirent_list[i].d_name) THEN FilesUntilStop(h, i + 1, total)
    ELSE IF statfs(EntryPath(h, i)).r # 0 THEN <<>>
    ELSE IF ~OpenFile(EntryPath(h, i)).fd_ok THEN FilesUntilStop(h, i + 1, total)
    ELSE IF ~OpenFile(EntryPath(h, i)).fstat_ok THEN <<>>
    ELSE IF total + OpenFile(EntryPath(h, i)).st_size > CacheLimit THEN <<>>
    ELSE <<EntryPath(h, i)>>
         \o FilesUntilStop(h, i + 1, total + OpenFile(EntryPath(h, i)).st_size)

RECURSIVE ExtentCount(_)
ExtentCount(files) ==
    IF files = <<>> THEN 0
    ELSE Len(OpenFile(Head(files)).extents) + ExtentCount(Tail(files))

\* reads is an arrangement of all the extents of files, one read per extent,
\* in non-decreasing physical order
ReadsAllSorted(files, reads) ==
    /\ \A i \in 1..(Len(reads) - 1) : reads[i].physical_pos <= reads[i + 1].physical_pos
    /\ Len(reads) = ExtentCount(files)
    /\ \A f \in 1..Len(files) : \A x \in 1..Len(OpenFile(files[f]).extents) :
          \E i \in 1..Len(reads) :
              /\ reads[i].physical_pos = OpenFile(files[f]).extents[x].fe_physical
              /\ reads[i].file_offset = OpenFile(files[f]).extents[x].fe_logical

CursorInList(h) == h.current_dirent \in 1..(Len(h.dirent_list) + 1)

AtEndOfList(h) == h.current_dirent = Len(h.dirent_list) + 1

\* C21: the cursor of every tracked handle is an element of the handle's
\* materialized list or the end-of-list marker, and a read-entry at the end
\* of the list returns end-of-directory and leaves cursor, FSM state and
\* suppression counter as they were.
C21_CursorStaysInList ==
    [][/\ \A k \in 1..Len(dirp_to_state_map') : CursorInList(dirp_to_state_map'[k])
       /\ \A k \in 1..Len(dirp_to_state_map) :
             (/\ ev'.op = "readdir" /\ ev'.dirp = dirp_to_state_map[k].dirp
              /\ AtEndOfList(dirp_to_state_map[k]))
             => /\ ev'.res = NULL
                /\ dirp_to_state_map'[k] = dirp_to_state_map[k]]_vars

\* a read-entry at the end of the list, on a handle that saw one read and one
\* open
C21_Witness ==
    /\ ev.op = "readdir" /\ ev.res = NULL
    /\ obs.nreads[ev.dirp] = Len(obs.snap[ev.dirp]) + 1
    /\ \E k \in 1..Len(dirp_to_state_map) :
          /\ dirp_to_state_map[k].dirp = ev.dirp
          /\ AtEndOfList(dirp_to_state_map[k])
          /\ dirp_to_state_map[k].fsm_state = "readdir1_open1"

\* C22: rewind on a tracked handle, from any FSM state, sets the FSM state
\* to start and the cursor to the first element of the list materialized at
\* open time, which it leaves as it is (the directory is not read again).
C22_RewindResets ==
    [][\A k \in 1..Len(dirp_to_state_map) :
          (ev'.op = "rewinddir" /\ ev'.dirp = dirp_to_state_map[k].dirp)
          => /\ dirp_to_state_map'[k].fsm_state = "start"
             /\ dirp_to_state_map'[k].current_dirent = 1
             /\ dirp_to_state_map'[k].dirent_list = dirp_to_state_map[k].dirent_list
             /\ dirp_to_state_map'[k].dirent_list = obs.snap[ev'.dirp]]_vars

\* a rewind of a handle on which a prefetch pass had run: the handle is back
\* at start with entries still counted as prefetched
C22_Witness ==
    /\ ev.op = "rewinddir"
    /\ \E k \in 1..Len(dirp_to_state_map) :
          /\ dirp_to_state_map[k].dirp = ev.dirp
          /\ dirp_to_state_map[k].fsm_state = "start"
          /\ dirp_to_state_map[k].current_dirent = 1
          /\ dirp_to_state_map[k].cached_files_count > 0

\* fname is dirname, a '/' and a non-empty file name without '/'
DirectlyInside(fname, dirname) ==
    /\ Len(fname) > Len(dirname) + 1
    /\ SubSeq(fname, 1, Len(dirname)) = dirname
    /\ fname[Len(dirname) + 1] = "/"
    /\ \A i \in (Len(dirname) + 2)..Len(fname) : fname[i] # "/"

\* C25: an open-file event changes the FSM state of a handle only if the
\* opened path names a file directly inside the handle's directory: the
\* directory name, a '/', and a file name without '/'.
C25_OnlyFilesOfDirectoryCount ==
    [][ev'.op = "openat" =>
        \A k \in 1..Len(dirp_to_state_map) :
            dirp_to_state_map'[k].fsm_state # dirp_to_state_map[k].fsm_state
            => DirectlyInside(ev'.path, dirp_to_state_map[k].dirname)]_vars

Absorbing(h) == h.fsm_state \in {"do_precaching", "skip"}

\* C26: a read-entry or open-file event leaves the FSM state of every handle
\* that is in precache or skip as it is, and a handle in one of the two
\* leaves it only by rewind (to start) or by being closed.
C26_PrecacheAndSkipAbsorbing ==
    [][\A k \in 1..Len(dirp_to_state_map) :
          Absorbing(dirp_to_state_map[k]) =>
              /\ ev'.op \in {"readdir", "openat"} =>
                    /\ k <= Len(dirp_to_state_map')
                    /\ dirp_to_state_map'[k].dirp = dirp_to_state_map[k].dirp
                    /\ dirp_to_state_map'[k].fsm_state = dirp_to_state_map[k].fsm_state
              /\ (\A j \in 1..Len(dirp_to_state_map') :
                     dirp_to_state_map'[j].dirp = dirp_to_state_map[k].dirp
                     => dirp_to_state_map'[j].fsm_state # dirp_to_state_map[k].fsm_state)
                 => \/ /\ ev'.op = "rewinddir" /\ ev'.dirp = dirp_to_state_map[k].dirp
                       /\ \E j \in 1..Len(dirp_to_state_map') :
                             /\ dirp_to_state_map'[j].dirp = dirp_to_state_map[k].dirp
                             /\ dirp_to_state_map'[j].fsm_state = "start"
                    \/ /\ ev'.op = "closedir" /\ ev'.dirp = dirp_to_state_map[k].dirp
                       /\ FindDirp(dirp_to_state_map', ev'.dirp) = 0]_vars

\* a matching open that reached a handle in precache with entries still
\* counted as prefetched, and left it in precache
C26_Witness ==
    /\ ev.op = "openat" /\ ev.atfd = AT_FDCWD
    /\ dirp_to_state_map # <<>>
    /\ DirectlyInside(ev.path, dirp_to_state_map[1].dirname)
    /\ dirp_to_state_map[1].fsm_state = "do_precaching"
    /\ dirp_to_state_map[1].cached_files_count > 0

\* the handles of the table opened on the directory path dirname
HandlesOn(map, dirname) == {k \in 1..Len(map) : map[k].dirname = dirname}

\* the earliest-opened of them (the table is in insertion order)
Earliest(K) == CHOOSE k \in K : \A j \in K : k <= j

C28_RewoundLikeFresh ==
    /\ \A k \in 1..Len(dirp_to_state_map) :
          /\ dirp_to_state_map[k].fsm_state
                 = obs.fresh[dirp_to_state_map[k].dirp].fsm_state
          /\ dirp_to_state_map[k].current_dirent
                 = obs.fresh[dirp_to_state_map[k].dirp].current_dirent
    /\ ev.op = "readdir" =>
          /\ ev.res = ev.fresh.res
          /\ ev.cached = ev.fresh.cached
          /\ ev.files = ev.fresh.files

\* C29: on one handle, with no rewind in between, a prefetch pass starts at
\* or after the first entry the pass before it did not count, and maps no
\* file a pass before it mapped.
C29_NoEntryPrefetchedTwice ==
    [][(ev'.op = "readdir" /\ ev'.cached) =>
        /\ dirp_to_state_map[FindDirp(dirp_to_state_map, ev'.dirp)].current_dirent
               >= obs.uncovered[ev'.dirp]
        /\ \A i \in 1..Len(ev'.files) : ev'.files[i] \notin obs.handed[ev'.dirp]]_vars

\* a second pass on a handle: it mapped files, and so had a pass before it
C29_Witness ==
    /\ ev.op = "readdir" /\ ev.cached /\ ev.files # <<>>
    /\ \E f \in obs.handed[ev.dirp] : \A i \in 1..Len(ev.files) : ev.files[i] # f

(***************************************************************************)
(* Properties of the batches: extents, order, budget, descriptors.         *)
(***************************************************************************)
\* how often x occurs in the sequence a
Count(a, x) == Cardinality({i \in 1..Len(a) : a[i] = x})

SameMultiset(a, b) ==
    /\ Len(a) = Len(b)
    /\ \A i \in 1..Len(a) : Count(a, a[i]) = Count(b, a[i])

NonDecreasing(reads) ==
    \A i \in 1..(Len(reads) - 1) : reads[i].physical_pos <= reads[i + 1].physical_pos

\* C17: in each mode (precache, precache-dir per level, the library's
\* prefetch pass) the segments of a batch are read in non-decreasing order
\* of physical offset, and the segments read are, as a multiset, the
\* segments enumerated for the batch.
C17_BatchReadSortedAndComplete ==
    \A k \in 1..Len(ev.batches) :
        /\ NonDecreasing(ev.batches[k].reads)
        /\ SameMultiset(ev.batches[k].segments, ev.batches[k].reads)

\* a prefetch pass of the library whose segments were enumerated in another
\* order than they were read
C17_Witness ==
    /\ ev.op = "readdir" /\ Len(ev.batches) = 1
    /\ Len(ev.batches[1].segments) >= 3
    /\ ev.batches[1].segments # ev.batches[1].reads

\* C18: every segment enumerated for a file of size S has logical offset +
\* length <= S, whatever extents the kernel reported for the file.
C18_SegmentsWithinFile ==
    \A k \in 1..Len(ev.batches) :
        \A i \in 1..Len(ev.batches[k].segments) :
            ev.batches[k].segments[i].file_offset
                + ev.batches[k].segments[i].extent_length
            <= OpenFile(ev.batches[k].segments[i].file_name).st_size

RECURSIVE SumSizes(_)
SumSizes(files) ==
    IF files = <<>> THEN 0 ELSE OpenFile(Head(files)).st_size + SumSizes(Tail(files))

\* the files of the pass that stand before list index i of handle h
FilesBefore(h, files, i) ==
    SelectSeq(files, LAMBDA f : \E j \in h.current_dirent..(i - 1) : EntryPath(h, j) = f)

\* the entry at list index i is a file whose size, added to the sizes of the
\* files of the pass before it, exceeds the cache limit
WouldExceed(h, files, i) ==
    /\ ~IsDotName(h.dirent_list[i].d_name)
    /\ OpenFile(EntryPath(h, i)).fd_ok /\ OpenFile(EntryPath(h, i)).fstat_ok
    /\ SumSizes(FilesBefore(h, files, i)) + OpenFile(EntryPath(h, i)).st_size
           > CacheLimit

\* C19: in a prefetch pass of the library the sizes of the files whose
\* extents are enumerated sum to at most the cache limit, and no entry is
\* enumerated at or after the first file whose size would take the running
\* total past the limit.
C19_PassWithinBudget ==
    [][\A k \in 1..Len(dirp_to_state_map) :
          PrefetchDue(dirp_to_state_map[k], ev') =>
              /\ SumSizes(ev'.files) <= CacheLimit
              /\ \A i \in dirp_to_state_map[k].current_dirent
                             ..Len(dirp_to_state_map[k].dirent_list) :
                    WouldExceed(dirp_to_state_map[k], ev'.files, i) =>
                        \A j \in i..Len(dirp_to_state_map[k].dirent_list) :
                            \A f \in 1..Len(ev'.files) :
                                ev'.files[f] # EntryPath(dirp_to_state_map[k], j)]_vars

\* a pass that enumerated a file and left out the next entry, whose size
\* did not fit under the limit any more
C19_Witness ==
    /\ ev.op = "readdir" /\ ev.cached /\ ev.files # <<>>
    /\ \E k \in 1..Len(dirp_to_state_map) :
          /\ dirp_to_state_map[k].dirp = ev.dirp
          /\ dirp_to_state_map[k].current_dirent
                 <= Len(dirp_to_state_map[k].dirent_list)
          /\ ev.files = <<EntryPath(dirp_to_state_map[k],
                                    dirp_to_state_map[k].current_dirent - 1)>>
          /\ SumSizes(ev.files)
                 + OpenFile(EntryPath(dirp_to_state_map[k],
                                      dirp_to_state_map[k].current_dirent)).st_size
                 > CacheLimit

\* the subdirectories of the directory at key that are directories themselves
\* (no symbolic links, not "." or "..") on device dev
RealSubdirs(key, dev) ==
    {Append(key, FsNode(key).ents[i]) :
        i \in {j \in 1..Len(FsNode(key).ents) :
                  /\ ~IsDotName(FsNode(key).ents[j])
                  /\ FsNode(Append(key, FsNode(key).ents[j])).kind = "dir"
                  /\ FsNode(Append(key, FsNode(key).ents[j])).fs = dev}}

RECURSIVE ExpectedLevel(_, _, _)
\* the directories n levels below the directory at key root_key, through
\* real subdirectories on device dev
ExpectedLevel(root_key, dev, n) ==
    IF n = 0 THEN {root_key}
    ELSE UNION {RealSubdirs(key, dev) : key \in ExpectedLevel(root_key, dev, n - 1)}

\* the directories a run handed to the extent engine, level after level
LevelKeys(levels, k) == [i \in 1..Len(levels[k]) |-> Lookup(levels[k][i]).key]

\* C23: a run of precache-dir on an existing root directory enumerates, at
\* its n-th level, the directories n - 1 steps below the root through real
\* subdirectories on the root's device, each once, and ends with the first
\* level that has no such subdirectories.
C23_LevelsCoverSameDevice ==
    (ev.op = "precache_dir" /\ Lookup(ev.path).ok /\ Lookup(ev.path).n.kind = "dir")
    => /\ Len(ev.levels) >= 1
       /\ \A k \in 1..Len(ev.levels) :
             /\ {LevelKeys(ev.levels, k)[i] : i \in 1..Len(ev.levels[k])}
                    = ExpectedLevel(Lookup(ev.path).key, Lookup(ev.path).n.fs, k - 1)
             /\ \A i, j \in 1..Len(ev.levels[k]) :
                   LevelKeys(ev.levels, k)[i] = LevelKeys(ev.levels, k)[j] => i = j
       /\ ExpectedLevel(Lookup(ev.path).key, Lookup(ev.path).n.fs, Len(ev.levels)) = {}

\* a run from "/" that went three levels deep and passed by a directory of
\* another device that has a subdirectory of its own
C23_Witness ==
    /\ ev.op = "precache_dir" /\ Len(ev.levels) = 3
    /\ ev.levels[3] # <<>>
    /\ \E c \in 1..Len(FsNode(Lookup(ev.path).key).ents) :
          LET sub == FsNode(Append(Lookup(ev.path).key,
                                   FsNode(Lookup(ev.path).key).ents[c]))
          IN /\ sub.kind = "dir" /\ sub.fs # Lookup(ev.path).n.fs
             /\ \E e \in 1..Len(sub.ents) : ~IsDotName(sub.ents[e])

\* the lines of a /proc/mounts that mount a device at the directory root_dir
\* names
MountedAt(lines, root_dir) ==
    {k \in 1..Len(lines) : /\ lines[k].mount_path = StripSlashes(root_dir)
                           /\ At(lines[k].device_path, 0) = "/"}

\* C24: precache-dir run without a raw device on a root directory that is a
\* mount point selects, from a readable /proc/mounts, the device mounted at
\* the root directory, whatever the order of the lines and whatever is
\* mounted beneath it or at paths that share leading characters with it.
C24_GuessesDeviceOfRoot ==
    (ev.op = "guess_device" /\ ev.r = 0 /\ MountedAt(ev.mounts, ev.path) # {})
    => \E k \in MountedAt(ev.mounts, ev.path) : ev.res = ev.mounts[k].device_path

RECURSIVE FilesSkippingErrors(_, _, _)
\* the paths of the entries from list index i on that a pass maps when it
\* passes over every entry that cannot be resolved, opened or stat'ed and
\* ends at the first file whose size would take the total past the limit
FilesSkippingErrors(h, i, total) ==
    IF i > Len(h.dirent_list) THEN <<>>
    ELSE IF \/ IsDotName(h.dirent_list[i].d_name)
            \/ statfs(EntryPath(h, i)).r # 0
            \/ ~OpenFile(EntryPath(h, i)).fd_ok
            \/ ~OpenFile(EntryPath(h, i)).fstat_ok
    THEN FilesSkippingErrors(h, i + 1, total)
    ELSE IF total + OpenFile(EntryPath(h, i)).st_size > CacheLimit THEN <<>>
    ELSE <<EntryPath(h, i)>>
         \o FilesSkippingErrors(h, i + 1, total + OpenFile(EntryPath(h, i)).st_size)

\* C30: a prefetch pass of the library passes over an entry that cannot be
\* resolved, opened or stat'ed and goes on with the next one: it maps every
\* entry from the cursor on that can be, up to the budget.
C30_PassSkipsFailedEntries ==
    [][\A k \in 1..Len(dirp_to_state_map) :
          PrefetchDue(dirp_to_state_map[k], ev') =>
              ev'.files = FilesSkippingErrors(dirp_to_state_map[k],
                                              dirp_to_state_map[k].current_dirent, 0)]_vars

\* C20: an operation of the core returns with every descriptor it opened
\* closed again, on every exit path.
C20_NoDescriptorLeftOpen == ev.fds = 0

\* C35: the extent enumeration of a file ends for every sequence of answers
\* to the extent query, also when a query succeeds with no mapped extent for
\* a file of non-zero size and when the final extent lacks the last-extent
\* flag.
C35_EnumerationTerminates ==
    ev.op \in {"precache", "precache_dir", "readdir"} => ~ev.hang

(***************************************************************************)
(* Properties of the resolver.                                             *)
(***************************************************************************)
\* C3: resolve(P) returns a translated path or a copy of P and never a null
\* result, also when a filesystem query on P fails.
C3_ResolveNeverNull ==
    ev.op = "resolve_path" => ev.res # NULL /\ ev.res # FAULT

EndsWithSlash(s) == Len(s) > 0 /\ s[Len(s)] = "/"

\* C6: no two entries of the mount table have the same overlay root, and no
\* stored overlay root or backing root ends with '/'.
C6_RootsUniqueNoTrailingSlash ==
    /\ \A j, k \in 1..Len(front_to_back_map) :
          front_to_back_map[j].encfs_front = front_to_back_map[k].encfs_front => j = k
    /\ \A k \in 1..Len(front_to_back_map) :
          /\ ~EndsWithSlash(front_to_back_map[k].encfs_front)
          /\ ~EndsWithSlash(front_to_back_map[k].encfs_back)

RefreshOps == {"force_refresh_mounts", "refresh_mounts", "opendir"}

\* path is the directory root, in whatever form root is written, or lies
\* under it
IsUnder(path, root) ==
    \/ path = root
    \/ path = StripSlashes(root)
    \/ HasPrefix(path, StripSlashes(root) \o <<"/">>)

\* C7: after a refresh that retired or replaced a mount with backing root B,
\* the inode cache holds no entry whose path is B or lies under B.
C7_RetiredRootsPurged ==
    ev.op \in RefreshOps =>
        \A B \in ev.retired : \A m \in inode_to_path_map : ~IsUnder(m.path, B)

RECURSIVE ArgsFrom(_, _)
\* the NUL-terminated arguments of a command line from position ptr on
ArgsFrom(cmdline, ptr) ==
    IF ptr > Len(cmdline) THEN <<>>
    ELSE <<CStrAt(cmdline, ptr)>> \o ArgsFrom(cmdline, ptr + CStrLen(cmdline, ptr) + 1)

Positional(args) == SelectSeq(Tail(args), LAMBDA a : At(a, 0) # "-")

\* a process a scan observes as an overlay daemon with its two roots
IsDaemon(p) ==
    /\ p.is_pid_dir /\ p.readable
    /\ ArgsFrom(p.cmdline, 1) # <<>>
    /\ Head(ArgsFrom(p.cmdline, 1)) = encfs
    /\ Len(Positional(ArgsFrom(p.cmdline, 1))) >= 2

OverlayRoot(p) == StripSlashes(Positional(ArgsFrom(p.cmdline, 1))[2])

ObservedRoots(table) ==
    {OverlayRoot(table[k]) : k \in {j \in 1..Len(table) : IsDaemon(table[j])}}

TableRoots(f2b) == {f2b[k].encfs_front : k \in 1..Len(f2b)}

SameMount(a, b) ==
    /\ a.encfs_front = b.encfs_front
    /\ a.encfs_back = b.encfs_back
    /\ a.encfs_pid = b.encfs_pid

\* C8: after a completed scan the overlay roots of the mount table are those
\* of the daemons observed, one entry for each, and an entry re-observed
\* under its pid is kept as it was.
C8_TableMatchesObserved ==
    [][(ev'.op \in RefreshOps /\ ev'.scanned /\ ev'.r = 0) =>
        /\ TableRoots(front_to_back_map') = ObservedRoots(procs)
        /\ Len(front_to_back_map') = Cardinality(ObservedRoots(procs))
        /\ \A k \in 1..Len(front_to_back_map) :
              (\E j \in 1..Len(procs) :
                  /\ IsDaemon(procs[j])
                  /\ OverlayRoot(procs[j]) = front_to_back_map[k].encfs_front
                  /\ procs[j].pid = front_to_back_map[k].encfs_pid)
              => \E i \in 1..Len(front_to_back_map') :
                     SameMount(front_to_back_map'[i], front_to_back_map[k])]_vars

MaybeRefreshOps == {"refresh_mounts", "opendir"}

OnOverlay(path) == statfs(path).r = 0 /\ statfs(path).f_type = FUSE_SUPER_MAGIC

\* C9: a maybe-refresh-mounts call made in the same second as an earlier one
\* does not scan the process table, whatever the two context paths were and
\* whether or not the earlier call scanned.
C9_SecondCallInSecondDoesNotScan ==
    [][(ev'.op \in MaybeRefreshOps /\ obs.lastMaybeSec = now) => ~ev'.scanned]_vars

\* a call on the overlay, with daemons running, that came in the second of
\* the call before it and did not scan
C9_Witness ==
    /\ ev.op = "refresh_mounts" /\ ev.prev = now
    /\ OnOverlay(ev.path) /\ ObservedRoots(procs) # {}
    /\ ~ev.scanned

\* C10: a maybe-refresh-mounts call whose context path is not on the overlay
\* filesystem family does not scan and leaves the mount table and the inode
\* cache unchanged.
C10_OffOverlayNoScan ==
    [][(ev'.op \in MaybeRefreshOps /\ ~OnOverlay(ev'.path)) =>
        /\ ~ev'.scanned
        /\ front_to_back_map' = front_to_back_map
        /\ inode_to_path_map' = inode_to_path_map]_vars

\* the first call of a second, off the overlay, with a daemon running that
\* the table does not have
C10_Witness ==
    /\ ev.op = "refresh_mounts" /\ ev.prev # now
    /\ statfs(ev.path).r = 0 /\ ~OnOverlay(ev.path)
    /\ ObservedRoots(procs) # {} /\ front_to_back_map = <<>>
    /\ ~ev.scanned

\* the mount table as a set of (overlay root, backing root, pid) entries
MountSet(f2b) ==
    {[front |-> f2b[k].encfs_front, back |-> f2b[k].encfs_back,
      pid |-> f2b[k].encfs_pid] : k \in 1..Len(f2b)}

\* C11: of two force-refresh calls made back to back, with the same processes
\* running and /proc answering both the same way, the second leaves the
\* mount table, as a set of (overlay root, backing root, pid) entries, equal
\* to the table the first left.
C11_ForceRefreshIdempotent ==
    [][(/\ ev.op = "force_refresh_mounts" /\ ev'.op = "force_refresh_mounts"
        /\ ev'.r = ev.r)
       => MountSet(front_to_back_map') = MountSet(front_to_back_map)]_vars

\* the second of two completed scans, with two daemons claiming one overlay
\* root, so that both scans replaced entries
C11_Witness ==
    /\ ev.op = "force_refresh_mounts" /\ ev.after = "force_refresh_mounts"
    /\ ev.r = 0 /\ ev.retired # {}
    /\ Len(front_to_back_map) = 1

\* C12: of two resolve calls with the same path, made back to back (same
\* filesystem, same mount table), the second returns the bytes the first
\* returned, also when the first walked the backing directories and the
\* second was answered by the inode cache.
C12_ResolveStable ==
    [][(/\ ev.op = "resolve_path" /\ ev'.op = "resolve_path"
        /\ ev'.path = ev.path)
       => ev'.res = ev.res]_vars

\* an existing regular file that is not on the overlay filesystem family
OffOverlayFile(path) ==
    /\ lstat(path).r = 0 /\ lstat(path).reg
    /\ statfs(path).r = 0 /\ statfs(path).f_type # FUSE_SUPER_MAGIC

\* C13: for an existing regular file P that is not on the overlay filesystem
\* family, resolve(P) returns P byte for byte and changes neither the mount
\* table nor the inode cache, whatever the two hold.
C13_OffOverlayUnchanged ==
    [][(ev'.op = "resolve_path" /\ OffOverlayFile(ev'.path)) =>
        /\ ev'.res = ev'.path
        /\ front_to_back_map' = front_to_back_map
        /\ inode_to_path_map' = inode_to_path_map]_vars

\* resolve of a file outside the overlay whose inode number the cache holds
\* (under a backing path), with a mount known
C13_Witness ==
    /\ ev.op = "resolve_path" /\ OffOverlayFile(ev.path)
    /\ front_to_back_map # <<>>
    /\ \E m \in inode_to_path_map :
          m.inode = lstat(ev.path).st_ino /\ m.path # ev.path

\* the call translated its path
Translated(e) ==
    e.op = "resolve_path" /\ e.res # NULL /\ e.res # FAULT /\ e.res # e.path

\* some directory the call scanned has no entry with the inode looked for
WalkMissed(e) ==
    \E k \in 1..Len(e.dirs) :
        \A j \in 1..Len(getdents64(e.dirs[k].path).ents) :
            getdents64(e.dirs[k].path).ents[j].d_ino # e.dirs[k].inode

\* C14: a path resolve(P) returns that differs from P names an entry whose
\* inode number is that of P; when a level of the downward walk has no entry
\* with the traced inode, resolve returns a copy of P.
C14_TranslationKeepsInode ==
    /\ Translated(ev) =>
          /\ lstat(ev.res).r = 0
          /\ lstat(ev.res).st_ino = lstat(ev.path).st_ino
    /\ (ev.op = "resolve_path" /\ WalkMissed(ev)) => ev.res = ev.path

\* a translation that walked two backing directories
C14_Witness ==
    Translated(ev) /\ Len(ev.dirs) = 2 /\ ~WalkMissed(ev)

\* path lies under the overlay root of some mount of the table
UnderKnownMount(path) ==
    \E k \in 1..Len(front_to_back_map) :
        IsUnder(path, front_to_back_map[k].encfs_front)

\* C15: for an existing path P under a known overlay mount that is not a
\* regular file (a directory, the overlay root, a symbolic link), resolve(P)
\* returns a copy of P, scans no backing directory and leaves the inode cache
\* unchanged.
C15_NonRegularReturnedAsIs ==
    [][(/\ ev'.op = "resolve_path" /\ UnderKnownMount(ev'.path)
        /\ lstat(ev'.path).r = 0 /\ ~lstat(ev'.path).reg)
       => /\ ev'.res = ev'.path
          /\ ev'.dirs = <<>>
          /\ inode_to_path_map' = inode_to_path_map]_vars

\* the components of path below root: its prefixes that end a component and
\* are longer than root
ChainBelow(path, root) ==
    LET S == StripSlashes(path)
        R == StripSlashes(root)
    IN {SubSeq(S, 1, n) : n \in {i \in (Len(R) + 1)..Len(S) :
                                    S[i] # "/" /\ At(S, i) \in {"/", NUL}}}

TraceBuilt(e) ==
    e.op = "resolve_path" /\ e.trace \notin {NOTRACE, NULLTRACE, FAULTTRACE}

\* the call gave up building its inode array
TraceFailed(e) ==
    e.op = "resolve_path" /\ e.trace \in {NULLTRACE, FAULTTRACE}

\* C31: when an lstat fails while the inode trace is built, or the path
\* collapses before it reaches the length of the overlay root, resolve
\* returns a copy of P, scans no backing directory, leaves the inode cache
\* unchanged and does not fault.
C31_FailedTraceGivesCopy ==
    [][TraceFailed(ev') =>
        /\ ev'.res = ev'.path
        /\ ev'.dirs = <<>>
        /\ inode_to_path_map' = inode_to_path_map]_vars

\* the inodes of the components of path strictly below root, deepest first
ChainInodes(path, root) ==
    LET C == ChainBelow(path, root)
        nth(i) == CHOOSE c \in C : Cardinality({d \in C : Len(d) > Len(c)}) = i - 1
    IN [i \in 1..Cardinality(C) |-> lstat(nth(i)).st_ino]

\* C32: a successful inode trace of P under the overlay root F holds one
\* inode for each path component of P strictly below F, deepest first, and
\* neither the inode of F nor a component twice, also when P has repeated
\* '/' separators.
C32_TraceIsChainBelowRoot ==
    TraceBuilt(ev) =>
        /\ ev.trace = ChainInodes(ev.path, front_to_back_map[ev.it].encfs_front)
        /\ \A i \in 1..Len(ev.trace) :
              ev.trace[i] # lstat(front_to_back_map[ev.it].encfs_front).st_ino

\* the trace indices (0-based) whose inode the cache i2p holds
TraceHits(i2p, trace) ==
    {k \in 0..(Len(trace) - 1) : InodeCached(i2p, trace[k + 1])}

\* the index the downward walk starts below: the deepest cached component,
\* the length of the trace when none is cached
WalkStart(i2p, trace) ==
    IF TraceHits(i2p, trace) = {} THEN Len(trace)
    ELSE CHOOSE k \in TraceHits(i2p, trace) : \A j \in TraceHits(i2p, trace) : k <= j

\* two paths name entries of one directory
Siblings(p, q) ==
    /\ p # q /\ LastSlash(p) = LastSlash(q)
    /\ SubSeq(p, 1, LastSlash(p)) = SubSeq(q, 1, LastSlash(q))

\* C33: the downward walk starts from the cached path of the deepest trace
\* component the inode cache holds and scans only the directories for the
\* trace indices below it; the backing root is scanned only when no trace
\* inode is cached; after a file was resolved by a scan of its directory,
\* resolving a sibling scans no directory above that directory.
C33_WalkStartsAtDeepestCached ==
    [][TraceBuilt(ev') =>
        LET tr == ev'.trace
            back == front_to_back_map[ev'.it].encfs_back
            start == WalkStart(inode_to_path_map, tr)
        IN /\ Len(ev'.dirs) <= start
           /\ \A j \in 1..Len(ev'.dirs) : ev'.dirs[j].inode = tr[start - j + 1]
           /\ ev'.dirs # <<>> =>
                 ev'.dirs[1].path = IF TraceHits(inode_to_path_map, tr) = {} THEN back
                                    ELSE CachedPath(inode_to_path_map, tr[start + 1])
           /\ (\E j \in 1..Len(ev'.dirs) : ev'.dirs[j].path = back)
                 => TraceHits(inode_to_path_map, tr) = {}
           /\ (Translated(ev) /\ ev.dirs # <<>> /\ Siblings(ev.path, ev'.path)) =>
                 \A j \in 1..Len(ev'.dirs) :
                     HasPrefix(ev'.dirs[j].path, ev.dirs[Len(ev.dirs)].path)]_vars

\* a file two levels down resolved with its directory cached and the file not:
\* the one scan is of the cached directory
C33_Witness ==
    /\ TraceBuilt(ev) /\ Translated(ev)
    /\ Len(ev.trace) = 2 /\ Len(ev.dirs) = 1
    /\ ev.dirs[1].path # front_to_back_map[ev.it].encfs_back

\* root is path, or a prefix of path that ends where a component ends
PathPrefix(root, path) == path = root \/ HasPrefix(path, root \o <<"/">>)

C37_StaysInsideOwnBackingRoot ==
    (/\ ev.op = "resolve_path" /\ ev.it # 0 /\ ev.res # FAULT
     /\ lstat(ev.path).r = 0 /\ lstat(ev.path).reg)
    => \/ ev.res = ev.path
       \/ IsUnder(ev.res, front_to_back_map[ev.it].encfs_back)

\* C38: a refresh made while the daemon processes are those of the refresh
\* before it removes no inode-cache entry, also when two of the processes
\* name one overlay root.  (The process table never changes under
\* SpecOverlays, and before the first refresh the cache is empty.)
C38_SteadyRefreshKeepsCache ==
    [][ev'.op = "force_refresh_mounts" =>
        inode_to_path_map \subseteq inode_to_path_map']_vars

\* C39: a maybe-refresh-mounts call on the overlay filesystem family scans
\* unless an earlier maybe-refresh-mounts call of the same second scanned;
\* in particular it scans when the one earlier call of its second did not
\* (context path off the overlay, or statfs failed).
C39_UnscannedSecondStillScans ==
    [][(/\ ev.op \in MaybeRefreshOps /\ ev.prev # now /\ ~ev.scanned
        /\ ev'.op \in MaybeRefreshOps /\ OnOverlay(ev'.path))
       => ev'.scanned]_vars

(***************************************************************************)
(* Properties of the locking discipline.                                   *)
(***************************************************************************)
\* C40: every intercepted call and the destructor release the mutex on every
\* path and never acquire it twice; hence, the underlying I/O calls
\* returning, every call of every thread eventually returns, also one that
\* waits behind another thread's prefetch pass.
C40_EveryCallReturns ==
    \A t \in Threads : (pc[t] # "idle") ~> (pc[t] = "idle")

\* the open handle dirp was returned to the host: no thread is still inside
\* the opendir that made it
HandedOut(dirp) ==
    /\ dirp \in obs.open
    /\ \A u \in Threads :
          pc[u] = "idle" \/ call[u].op # "opendir" \/ call[u].dirp # dirp

\* C36: the state registered for a newly opened handle is not removed by the
\* bookkeeping of a close that was issued for an earlier handle, also when
\* the new handle has the identity of the closed one; so the read-entry calls
\* on the new handle find its state and list it in full.
C36_CloseSparesNewHandle ==
    [][(/\ ev'.op = "closedir" /\ HandedOut(ev'.dirp)
        /\ FindDirp(dirp_to_state_map, ev'.dirp) # 0)
       => FindDirp(dirp_to_state_map', ev'.dirp) # 0]_vars

\* thread t is inside a section of code that reads or writes the per-handle
\* table, a handle's state or the resolver tables
Accessing(t) == pc[t] \in {"critical", "handle_openat"}

\* C2: every access to the per-handle table, to a handle's state and to the
\* resolver tables by an intercepted call or the destructor is made by a
\* thread holding the mutex, and no two threads access this state at once.
C2_AccessUnderMutex ==
    /\ \A t \in Threads : Accessing(t) => mutex = t
    /\ \A t, u \in Threads : Accessing(t) /\ Accessing(u) => t = u

=============================================================================
